---------------------------- MODULE Spec2Model ----------------------------
(***************************************************************************)
(* TFRC packet history (net/dccp/ccids/lib/packet_history.c) and the       *)
(* 48-bit sequence arithmetic of net/dccp/dccp.h.                          *)
(*                                                                         *)
(* A 48-bit sequence number does not fit TLC's 32-bit integers, so it is   *)
(* kept at full width as two 24-bit limbs [hi, lo] (value hi * 2^24 + lo). *)
(***************************************************************************)
EXTENDS Integers, Naturals, Sequences, FiniteSets, TLC

VARIABLES
    ring,        \* struct tfrc_rx_hist: ring[0..3], the four entries
    loss_count,  \* struct tfrc_rx_hist: loss_count:2
    loss_start,  \* struct tfrc_rx_hist: loss_start:2 (alias rtt_sample_prev)
    now,         \* the wall clock read by ktime_get_real()
    op,          \* name of the operation that produced this state
    pkt,         \* the packet (skb, ndp) that operation was given
    ret,         \* what the calls of that operation returned (-1: not called)
    pre,         \* the history as it was when that operation was called
    li_calls,    \* calls of tfrc_lh_interval_add made by that operation
    li_saw,      \* the history as tfrc_lh_interval_add saw it (last call)
    bugs,        \* DCCP_BUG reports made by that operation
    scen,        \* progress of the arrival trace 100, 103, 102, 101
    run,         \* length of the current run of in-order arrivals
    isr,         \* the first sequence number of the connection's window
    wall,        \* ktime_get_real() in microseconds, as read by the sampler
    sample,      \* what tfrc_rx_hist_sample_rtt returned to that operation
    tx_head,     \* the Tx history: the chain of entries, newest first
    tx,          \* the last Tx operation: its arguments, result, chain before
    slots,       \* struct tfrc_rx_hist: the pointers ring[0..3]
    live,        \* the objects of tfrc_rx_hist_slab that are allocated
    alloc,       \* the last allocator operation: its result, state before
    arith,       \* the last call of the sequence arithmetic: arguments, results
    arrived      \* the packets a+1 .. a+n that arrived after the anchor a

\* the Tx history, the allocator and the sequence arithmetic
side_vars == <<tx_head, tx, slots, live, alloc, arith, arrived>>

\* the state of the RTT sampler, the Tx history and the allocator
ext_vars == <<wall, sample, tx_head, tx, slots, live, alloc, arith, arrived>>

vars == <<ring, loss_count, loss_start, now, op, pkt, ret, pre,
          li_calls, li_saw, bugs, scen, run, isr, wall, sample,
          tx_head, tx, slots, live, alloc, arith, arrived>>

----------------------------------------------------------------------------
(* Bounds of the model *)

\* the packets of a connection carry the sequence numbers
\* isr .. isr + MaxSeqOff, and one far ahead of them
MaxSeqOff == 4
\* the clock moves by one with every operation, up to MaxNow: a run has at
\* most MaxNow operations
MaxNow == 4

----------------------------------------------------------------------------
(* Sequence arithmetic modulo 2^48, on 24-bit limbs *)

Limb == 2^24

Seq48(h, l) == [hi |-> h, lo |-> l]

\* a small natural number as a sequence number
SeqOf(n) == Seq48(0, n)

\* (a + b) mod 2^48
seq_add(a, b) ==
    LET l == a.lo + b.lo
        c == IF l >= Limb THEN 1 ELSE 0
    IN  Seq48((a.hi + b.hi + c) % Limb, l % Limb)

\* dccp_delta_seqno without the borrow between the limbs: the difference is
\* wrong whenever the low part wraps
dccp_delta_seqno_no_borrow(seqno1, seqno2) ==
    Seq48((seqno2.hi - seqno1.hi) % Limb, (seqno2.lo - seqno1.lo) % Limb)

\* ((seqno2 << 16) - (seqno1 << 16)) >> 16 on u64: (seqno2 - seqno1) mod 2^48
dccp_delta_seqno(seqno1, seqno2) ==
    LET l == seqno2.lo - seqno1.lo
        b == IF l < 0 THEN 1 ELSE 0
    IN  Seq48((seqno2.hi - seqno1.hi - b) % Limb, l % Limb)

SeqZero == Seq48(0, 0)

\* (s64)((seq1 << 16) - (seq2 << 16)) < 0: bit 47 of (seq1 - seq2) is set
before48(seq1, seq2) == dccp_delta_seqno(seq2, seq1).hi >= Limb \div 2

\* after48 as `the signed difference seq1 - seq2 is positive'
after48_positive(seq1, seq2) ==
    LET d == dccp_delta_seqno(seq2, seq1)
    IN  d # Seq48(0, 0) /\ d.hi < Limb \div 2

\* (s64)((seq2 << 16) - (seq1 << 16)) < 0: bit 47 of (seq2 - seq1) is set
after48(seq1, seq2) == dccp_delta_seqno(seq1, seq2).hi >= Limb \div 2

\* unsigned comparison of two 48-bit values
SeqLeq(a, b) == a.hi < b.hi \/ (a.hi = b.hi /\ a.lo <= b.lo)

\* between48 with `>' in place of `>=': seq3 itself is left out
between48_open(seq1, seq2, seq3) ==
    LET d1 == dccp_delta_seqno(seq2, seq1)
        d3 == dccp_delta_seqno(seq2, seq3)
    IN  d1.hi < d3.hi \/ (d1.hi = d3.hi /\ d1.lo < d3.lo)

\* (seq3 << 16) - (seq2 << 16) >= (seq1 << 16) - (seq2 << 16), unsigned
between48(seq1, seq2, seq3) ==
    SeqLeq(dccp_delta_seqno(seq2, seq1), dccp_delta_seqno(seq2, seq3))

\* the deltas kept in an unsigned variable: a backward distance is a large
\* positive number (its low 31 bits here)
ToInt_unsigned(d) == (d.hi % 128) * Limb + d.lo

\* The conversion of `int d = dccp_delta_seqno(..)': the u64 result keeps its
\* low 32 bits, read as a two's complement int.
ToInt(d) ==
    LET h8 == d.hi % 256
    IN  IF h8 >= 128 THEN (h8 - 256) * Limb + d.lo ELSE h8 * Limb + d.lo

\* `u64 <= 0': an unsigned value is <= 0 only when it is 0
U64LeqZero(d) == d = SeqZero

\* `n >= d' with n of type u32 and d of type int: d is converted to unsigned.
\* NDP counts are below 2^24 ("in fact it is from 8 to 24 bits"), so a
\* negative d (2^32 + d as unsigned) is never reached by n.
U32Geq(n, d) == d >= 0 /\ n >= d

\* `n < d' with n of type u32 and d of type int
U32Less(n, d) == d < 0 \/ n < d

----------------------------------------------------------------------------
(* Times in microseconds and u32 samples.  A time is kept on two 24-bit     *)
(* limbs like a sequence number (s64 in the code; the model's times stay    *)
(* far below 2^47, so the 48 bits lose nothing); a u32 is kept as          *)
(* [hi, lo] with hi its upper 8 and lo its lower 24 bits.                   *)

U32Of(n) == [hi |-> n \div Limb, lo |-> n % Limb]

\* ktime_us_delta(later, earlier): later - earlier, two's complement
ktime_us_delta(later, earlier) ==
    LET l == later.lo - earlier.lo
        b == IF l < 0 THEN 1 ELSE 0
    IN  [hi |-> (later.hi - earlier.hi - b) % Limb, lo |-> l % Limb]

\* the s64 d is negative
S64Neg(d) == d.hi >= Limb \div 2

\* `u32 sample = <s64>': the low 32 bits are kept
ToU32(d) == [hi |-> d.hi % 256, lo |-> d.lo]

\* q * d on s64, for 0 <= q <= 4
S64Scale(q, d) ==
    LET l == q * d.lo
    IN  [hi |-> (q * d.hi + l \div Limb) % Limb, lo |-> l % Limb]

\* a > b on u32
U32Gt(a, b) == a.hi > b.hi \/ (a.hi = b.hi /\ a.lo > b.lo)

\* the sanity maximum of an RTT sample: 4 seconds, in microseconds
DCCP_SANE_RTT_MAX == U32Of(4 * 1000000)

\* SUB16(a, b): a - b modulo 16
SUB16(a, b) == (a + 16 - b) % 16

----------------------------------------------------------------------------
(* Receiver history: struct tfrc_rx_hist as the record                     *)
(* [ring, loss_count, loss_start]; the functions below take it as h and    *)
(* give the history they leave behind.                                     *)

TFRC_NDUPACK == 3

Slots == 0 .. TFRC_NDUPACK

\* The inline accessors of struct tfrc_rx_hist are used by
\* packet_history.c but are not among the sources; they follow the data
\* model: entry(i) = ring[(loss_start + i) mod 4], entry(0) the anchor.
tfrc_rx_hist_index(h, n) == (h.loss_start + n) % (TFRC_NDUPACK + 1)

tfrc_rx_hist_entry(h, n) == h.ring[tfrc_rx_hist_index(h, n)]

tfrc_rx_hist_loss_prev(h) == h.ring[h.loss_start]

\* The slot of the packet received last: the anchor while no gap is pending,
\* the newest pending entry otherwise (loss_count is the "number of entries
\* in circular history"; after new_loss_indicated has set it to 1, the
\* packet stored by add_packet is the pending entry(1)).
tfrc_rx_hist_last_rcv(h) == tfrc_rx_hist_index(h, h.loss_count)

\* tfrc_rx_hist_entry_from_skb forgetting the NDP count
tfrc_rx_hist_entry_from_skb_no_ndp(h, slot, skb, ndp, t) ==
    [h EXCEPT !.ring[slot] = [seqno  |-> skb.seq,
                              ccval  |-> skb.ccval,
                              type   |-> skb.type,
                              ndp    |-> h.ring[slot].ndp,
                              tstamp |-> t]]

\* tfrc_rx_hist_entry_from_skb, writing the entry in ring slot `slot'
tfrc_rx_hist_entry_from_skb(h, slot, skb, ndp, t) ==
    [h EXCEPT !.ring[slot] = [seqno  |-> skb.seq,
                              ccval  |-> skb.ccval,
                              type   |-> skb.type,
                              ndp    |-> ndp,
                              tstamp |-> t]]

tfrc_rx_hist_add_packet(h, skb, ndp, t) ==
    tfrc_rx_hist_entry_from_skb(h, tfrc_rx_hist_last_rcv(h), skb, ndp, t)

\* has the packet been seen before? (1 or 0)
tfrc_rx_hist_duplicate(h, skb) ==
    IF U64LeqZero(dccp_delta_seqno(tfrc_rx_hist_loss_prev(h).seqno, skb.seq))
    THEN 1
    ELSE IF \E i \in 1 .. h.loss_count :
                tfrc_rx_hist_entry(h, i).seqno = skb.seq
         THEN 1
         ELSE 0

tfrc_rx_hist_loss_indicated(h) == [h EXCEPT !.loss_count = 1]

tfrc_rx_hist_loss_pending(h) == h.loss_count

\* gives [h, ret]: the history afterwards and the value returned
tfrc_rx_hist_new_loss_indicated(h, skb, ndp) ==
    LET delta == ToInt(dccp_delta_seqno(h.ring[tfrc_rx_hist_last_rcv(h)].seqno,
                                        skb.seq))
        h1    == IF delta > 1 /\ U32Less(ndp, delta)
                 THEN tfrc_rx_hist_loss_indicated(h)
                 ELSE h
    IN  [h |-> h1, ret |-> tfrc_rx_hist_loss_pending(h1)]

tfrc_rx_hist_swap(h, a, b) ==
    LET idx_a == tfrc_rx_hist_index(h, a)
        idx_b == tfrc_rx_hist_index(h, b)
    IN  [h EXCEPT !.ring = [h.ring EXCEPT ![idx_a] = h.ring[idx_b],
                                          ![idx_b] = h.ring[idx_a]]]

\* `-d' on int; the input sets never make d = INT_MIN
Neg32(d) == 0 - d

\* hole after the anchor, one later packet held: S0, S1 tracked, S2 arrives
one_after_loss(h, skb, n2, t) ==
    LET s0  == tfrc_rx_hist_loss_prev(h).seqno
        s1  == tfrc_rx_hist_entry(h, 1).seqno
        s2  == skb.seq
        n1  == tfrc_rx_hist_entry(h, 1).ndp
        d12 == ToInt(dccp_delta_seqno(s1, s2))
        d2  == ToInt(dccp_delta_seqno(s0, s2))
        d21 == Neg32(d12)
    IN  IF d12 > 0
        THEN \* S1 < S2
             tfrc_rx_hist_entry_from_skb([h EXCEPT !.loss_count = 2],
                                         tfrc_rx_hist_index(h, 2), skb, n2, t)
        ELSE IF d2 = 1 \/ U32Geq(n2, d2)
        THEN \* S2 is direct successor of S0
             IF d21 = 1 \/ n1 >= d21
             THEN \* hole is filled: S0, S2, and S1 are consecutive
                  [h EXCEPT !.loss_count = 0,
                            !.loss_start = tfrc_rx_hist_index(h, 1)]
             ELSE \* gap between S2 and S1: just update loss_prev
                  tfrc_rx_hist_entry_from_skb(h, h.loss_start, skb, n2, t)
        ELSE \* hole between S0 and S2: insert S2 between S0 and S1
             LET h1 == tfrc_rx_hist_swap(h, 0, 3)
                 h2 == [h1 EXCEPT !.loss_start = tfrc_rx_hist_index(h1, 3)]
                 h3 == tfrc_rx_hist_entry_from_skb(
                           h2, tfrc_rx_hist_index(h2, 1), skb, n2, t)
             IN  [h3 EXCEPT !.loss_count = 2]

\* S0, S1, S2 tracked, S3 arrives; gives [h, ret], ret = 1 if a new loss
\* event has been identified
two_after_loss(h, skb, n3, t) ==
    LET s0  == tfrc_rx_hist_loss_prev(h).seqno
        s1  == tfrc_rx_hist_entry(h, 1).seqno
        s2  == tfrc_rx_hist_entry(h, 2).seqno
        s3  == skb.seq
        n1  == tfrc_rx_hist_entry(h, 1).ndp
        d23 == ToInt(dccp_delta_seqno(s2, s3))
        d13 == ToInt(dccp_delta_seqno(s1, s3))
        d31 == Neg32(d13)
        d3  == ToInt(dccp_delta_seqno(s0, s3))
        d2  == ToInt(dccp_delta_seqno(s1, s2))
        n2  == tfrc_rx_hist_entry(h, 2).ndp
    IN  IF d23 > 0
        THEN \* S2 < S3
             [h   |-> tfrc_rx_hist_entry_from_skb(
                          [h EXCEPT !.loss_count = 3],
                          tfrc_rx_hist_index(h, 3), skb, n3, t),
              ret |-> 1]
        ELSE IF d13 > 0
        THEN \* order is S1, S3, S2: insert the entry between S1 and S2
             LET h1 == tfrc_rx_hist_swap(h, 2, 3)
                 h2 == tfrc_rx_hist_entry_from_skb(
                           h1, tfrc_rx_hist_index(h1, 2), skb, n3, t)
             IN  [h |-> [h2 EXCEPT !.loss_count = 3], ret |-> 1]
        ELSE IF d3 = 1 \/ U32Geq(n3, d3)
        THEN \* S3 is a successor of S0
             [h   |-> IF d31 = 1 \/ n1 >= d31
                      THEN \* hole between S0 and S1 filled by S3
                           IF d2 = 1 \/ n2 >= d2
                           THEN \* entire hole filled by S0, S3, S1, S2
                                [h EXCEPT
                                   !.loss_start = tfrc_rx_hist_index(h, 2),
                                   !.loss_count = 0]
                           ELSE \* gap remains between S1 and S2
                                [h EXCEPT
                                   !.loss_start = tfrc_rx_hist_index(h, 1),
                                   !.loss_count = 1]
                      ELSE \* gap between S3 and S1, loss_count stays at 2
                           tfrc_rx_hist_entry_from_skb(h, h.loss_start,
                                                       skb, n3, t),
              ret |-> 0]
        ELSE \* order is S0, S3, S1, S2: insert between S0 and S1
             LET h1 == tfrc_rx_hist_swap(h, 0, 3)
                 h2 == [h1 EXCEPT !.loss_start = tfrc_rx_hist_index(h1, 3)]
                 h3 == tfrc_rx_hist_entry_from_skb(
                           h2, tfrc_rx_hist_index(h2, 1), skb, n3, t)
             IN  [h |-> [h3 EXCEPT !.loss_count = 3], ret |-> 1]

\* DCCP_BUG_ON(e1 > h->loss_count || e2 > h->loss_count): reports made (0, 1)
tfrc_rx_hist_delta_seqno_bug(h, e1, e2) ==
    IF e1 > h.loss_count \/ e2 > h.loss_count THEN 1 ELSE 0

\* the distance from entry e1 to entry e2, as the int the callers keep
tfrc_rx_hist_delta_seqno(h, e1, e2) ==
    ToInt(dccp_delta_seqno(tfrc_rx_hist_entry(h, e1).seqno,
                           tfrc_rx_hist_entry(h, e2).seqno))

\* three_after_loss leaving loss_count at 3 when a gap remains between S1
\* and S2
three_after_loss_keeps_three(h) ==
    LET d2 == tfrc_rx_hist_delta_seqno(h, 1, 2)
        d3 == tfrc_rx_hist_delta_seqno(h, 2, 3)
        n2 == tfrc_rx_hist_entry(h, 2).ndp
        n3 == tfrc_rx_hist_entry(h, 3).ndp
    IN  IF d2 = 1 \/ n2 >= d2
        THEN IF d3 = 1 \/ n3 >= d3
             THEN [h EXCEPT !.loss_start = tfrc_rx_hist_index(h, 3),
                            !.loss_count = 0]
             ELSE [h EXCEPT !.loss_start = tfrc_rx_hist_index(h, 2),
                            !.loss_count = 1]
        ELSE [h EXCEPT !.loss_start = tfrc_rx_hist_index(h, 1)]

\* recycle the records after a loss has been recorded
three_after_loss(h) ==
    LET d2 == tfrc_rx_hist_delta_seqno(h, 1, 2)
        d3 == tfrc_rx_hist_delta_seqno(h, 2, 3)
        n2 == tfrc_rx_hist_entry(h, 2).ndp
        n3 == tfrc_rx_hist_entry(h, 3).ndp
    IN  IF d2 = 1 \/ n2 >= d2
        THEN \* S2 is successor to S1
             IF d3 = 1 \/ n3 >= d3
             THEN \* S3 is successor of S2: entire hole is filled
                  [h EXCEPT !.loss_start = tfrc_rx_hist_index(h, 3),
                            !.loss_count = 0]
             ELSE \* gap between S2 and S3
                  [h EXCEPT !.loss_start = tfrc_rx_hist_index(h, 2),
                            !.loss_count = 1]
        ELSE \* gap between S1 and S2
             [h EXCEPT !.loss_start = tfrc_rx_hist_index(h, 1),
                       !.loss_count = 2]

\* The loss-interval database is outside this module: a call records what the
\* history looked like and returns the caller-chosen r (1: a new interval was
\* opened, 0: the loss belongs to the current one).
tfrc_lh_interval_add(h, r) == [ret |-> r, saw |-> h]

\* DCCP_BUG(..) is not among the sources. It reports the condition and lets
\* the caller go on: in sample_rtt it stands on a path that "occurs" and
\* after which a sample of 0 is returned. n reports so far become n + 1.
DCCP_BUG(n) == [reports |-> n + 1, returns |-> TRUE]

\* the value in ret of a call that did not return
Fault == 0 - 2

NoEntry == [seqno |-> SeqZero, ccval |-> 0, type |-> 0, ndp |-> 0, tstamp |-> 0]

\* li_saw of an operation that did not call tfrc_lh_interval_add
NoSaw == [ring |-> [i \in Slots |-> NoEntry], loss_count |-> 0, loss_start |-> 0]

\* tfrc_rx_handle_loss recycling the records before it updates the
\* loss-interval database
tfrc_rx_handle_loss_recycle_first(h, skb, ndp, t, li_ret) ==
    IF h.loss_count = 1
    THEN [h |-> one_after_loss(h, skb, ndp, t), ret |-> 0, two |-> -1,
          li_calls |-> 0, li_saw |-> NoSaw, bugs |-> 0]
    ELSE IF h.loss_count # 2
    THEN [h |-> h, ret |-> 0, two |-> -1,
          li_calls |-> 0, li_saw |-> NoSaw, bugs |-> 1]
    ELSE LET two == two_after_loss(h, skb, ndp, t)
             h3  == three_after_loss(two.h)
             li  == tfrc_lh_interval_add(h3, li_ret)
         IN  IF two.ret # 0
             THEN [h |-> h3, ret |-> li.ret, two |-> two.ret,
                   li_calls |-> 1, li_saw |-> li.saw, bugs |-> 0]
             ELSE [h |-> two.h, ret |-> 0, two |-> two.ret,
                   li_calls |-> 0, li_saw |-> NoSaw, bugs |-> 0]

\* tfrc_rx_handle_loss answering with what __two_after_loss returned instead
\* of what the loss-interval database answered
tfrc_rx_handle_loss_returns_two(h, skb, ndp, t, li_ret) ==
    IF h.loss_count = 1
    THEN [h |-> one_after_loss(h, skb, ndp, t), ret |-> 0, two |-> -1,
          li_calls |-> 0, li_saw |-> NoSaw, bugs |-> 0]
    ELSE IF h.loss_count # 2
    THEN [h |-> h, ret |-> 0, two |-> -1,
          li_calls |-> 0, li_saw |-> NoSaw, bugs |-> 1]
    ELSE LET two == two_after_loss(h, skb, ndp, t)
             li  == tfrc_lh_interval_add(two.h, li_ret)
         IN  IF two.ret # 0
             THEN [h |-> three_after_loss(two.h), ret |-> two.ret,
                   two |-> two.ret,
                   li_calls |-> 1, li_saw |-> li.saw, bugs |-> 0]
             ELSE [h |-> two.h, ret |-> 0, two |-> two.ret,
                   li_calls |-> 0, li_saw |-> NoSaw, bugs |-> 0]

\* gives [h, ret, two, li_calls, li_saw, bugs]: two is what two_after_loss
\* returned (-1: not called); li_ret is what the loss-interval database
\* answers if it is asked
tfrc_rx_handle_loss(h, skb, ndp, t, li_ret) ==
    IF h.loss_count = 1
    THEN [h |-> one_after_loss(h, skb, ndp, t), ret |-> 0, two |-> -1,
          li_calls |-> 0, li_saw |-> NoSaw, bugs |-> 0]
    ELSE IF h.loss_count # 2
    THEN LET bug == DCCP_BUG(0)
         IN  [h |-> h, ret |-> IF bug.returns THEN 0 ELSE Fault, two |-> -1,
              li_calls |-> 0, li_saw |-> NoSaw, bugs |-> bug.reports]
    ELSE LET two == two_after_loss(h, skb, ndp, t)
             li  == tfrc_lh_interval_add(two.h, li_ret)
         IN  IF two.ret # 0
             THEN [h |-> three_after_loss(two.h), ret |-> li.ret,
                   two |-> two.ret,
                   li_calls |-> 1, li_saw |-> li.saw,
                   bugs |-> tfrc_rx_hist_delta_seqno_bug(two.h, 1, 2)
                            + tfrc_rx_hist_delta_seqno_bug(two.h, 2, 3)]
             ELSE [h |-> two.h, ret |-> 0, two |-> two.ret,
                   li_calls |-> 0, li_saw |-> NoSaw, bugs |-> 0]

----------------------------------------------------------------------------
(* RTT sampling: rtt_sample_prev is another name of the field loss_start   *)

\* reference entry to compute RTT samples against
tfrc_rx_hist_rtt_last_s(h) == h.ring[0]

\* the candidate looked for in ring slot 1, whatever rtt_sample_prev says
tfrc_rx_hist_rtt_prev_s_slot1(h) == h.ring[1]

\* previously suitable (wrt rtt_last_s) RTT-sampling entry
tfrc_rx_hist_rtt_prev_s(h) == h.ring[h.loss_start]

\* 4 / sample on u32
RttQuot(raw) == 4 \div raw

\* sample = DCCP_SANE_RTT_MAX if it is larger
RttClamp(smp) == IF U32Gt(smp, DCCP_SANE_RTT_MAX) THEN DCCP_SANE_RTT_MAX ELSE smp

\* The sampler with the test for a stored candidate moved to the branch of
\* the suboptimal match (1 <= delta_v <= 3)
tfrc_rx_hist_sample_rtt_early(h, skb, t) ==
    LET last    == tfrc_rx_hist_rtt_last_s(h)
        prev    == tfrc_rx_hist_rtt_prev_s(h)
        delta_v == SUB16(skb.ccval, last.ccval)
        raw     == SUB16(prev.ccval, last.ccval)
        done(smp, n) == [h |-> [h EXCEPT !.loss_start = 0],
                         ret |-> RttClamp(smp), bugs |-> n]
        keep(v)      == [h |-> [h EXCEPT !.loss_start = v],
                         ret |-> U32Of(0), bugs |-> 0]
    IN  IF delta_v = 4
        THEN done(ToU32(ktime_us_delta(t, last.tstamp)), 0)
        ELSE IF h.loss_start = 2
        THEN IF raw # 0
             THEN done(ToU32(S64Scale(RttQuot(raw),
                                      ktime_us_delta(prev.tstamp,
                                                     last.tstamp))), 0)
             ELSE done(U32Of(0), DCCP_BUG(0).reports)
        ELSE IF delta_v < 1
        THEN keep(1)
        ELSE IF delta_v > 4
        THEN done(U32Of(0), 0)
        ELSE keep(2)

\* tfrc_rx_hist_sample_rtt at time t (ktime_get_real); gives [h, ret, bugs]:
\* the history afterwards, the sample returned (u32) and the DCCP_BUG
\* reports made
tfrc_rx_hist_sample_rtt(h, skb, t) ==
    LET last    == tfrc_rx_hist_rtt_last_s(h)
        prev    == tfrc_rx_hist_rtt_prev_s(h)
        delta_v == SUB16(skb.ccval, last.ccval)
        raw     == SUB16(prev.ccval, last.ccval)
        \* the common exit: clamp, then use current entry as next reference
        done(smp, n) == [h |-> [h EXCEPT !.loss_start = 0],
                         ret |-> RttClamp(smp), bugs |-> n]
        \* keep_ref_for_next_time, with rtt_sample_prev = v
        keep(v)      == [h |-> [h EXCEPT !.loss_start = v],
                         ret |-> U32Of(0), bugs |-> 0]
    IN  IF delta_v < 1 \/ delta_v > 4
        THEN \* unsuitable CCVal delta
             IF h.loss_start = 2
             THEN \* previous candidate stored
                  IF raw # 0
                  THEN done(ToU32(S64Scale(RttQuot(raw),
                                           ktime_us_delta(prev.tstamp,
                                                          last.tstamp))), 0)
                  ELSE LET bug == DCCP_BUG(0)
                       IN  IF bug.returns THEN done(U32Of(0), bug.reports)
                           ELSE [h |-> h, ret |-> Fault, bugs |-> bug.reports]
             ELSE IF delta_v < 1
             THEN keep(1)
             ELSE done(U32Of(0), 0)
        ELSE IF delta_v = 4
        THEN \* optimal match
             done(ToU32(ktime_us_delta(t, last.tstamp)), 0)
        ELSE \* suboptimal match
             keep(2)

----------------------------------------------------------------------------
(* Inputs *)

\* 2^48 - 3: a window of sequence numbers that crosses the wrap
SeqBase == Seq48(Limb - 1, Limb - 3)

\* 99: the window of the arrival trace 100, 103, 102, 101
ScenBase == SeqOf(99)

\* 2^32 + 2: a distance that does not fit a 32-bit int
FarOff == Seq48(256, 2)

\* NDP counts: none, and one that accounts for a distance of up to 2
NdpInputs == {0, 2}

\* A packet: the fields of the skb that the history reads, and its NDP count.
\* The window counter (4 bits) and the packet type (2: Data, 3: Ack) are a
\* sample that tells the packets apart.
MkPacket(s, k, n) ==
    [seq |-> s, ndp |-> n, ccval |-> (3 * k + n + 1) % 16, type |-> 2 + (k % 2)]

Packets(base) ==
    { MkPacket(seq_add(base, SeqOf(k)), k, n) :
          k \in 0 .. MaxSeqOff, n \in NdpInputs }
    \cup { MkPacket(seq_add(base, FarOff), MaxSeqOff + 1, 0) }

NoPkt == [seq |-> SeqZero, ndp |-> 0, ccval |-> 0, type |-> 0]

\* what kmem_cache_alloc may have left in a ring entry
Garbage(s) ==
    [seqno |-> s, ccval |-> 15, type |-> 15, ndp |-> 0, tstamp |-> 0]

\* the sequence numbers found in the entries that were never written: any
\* value; here the start of the window or a number inside it
GarbageSeqs(base) == {base, seq_add(base, SeqOf(2))}

LiAnswers == {0, 1}

----------------------------------------------------------------------------
(* State *)

H == [ring |-> ring, loss_count |-> loss_count, loss_start |-> loss_start]

\* sample of an operation that did not call tfrc_rx_hist_sample_rtt.
\* called: the sampler was called; ret: the u32 it returned; flag: the
\* value the sampler itself gave rtt_sample_prev last (0: no candidate,
\* 1: reference kept, 2: candidate stored); was: flag before the operation;
\* follows: the arrival before this one produced a sample
NoSample ==
    [called |-> FALSE, ret |-> U32Of(0), flag |-> 0, was |-> 0,
     follows |-> FALSE]

\* the wall clock when the connection is set up (microseconds)
WallStart == Seq48(1, 0)

\* no Tx operation yet. ok: kmem_cache_alloc succeeded; ret: the int
\* returned by add; rtt: the u32 returned by rtt; t: the time `now' given
\* to rtt or read by add; pre: the chain before the operation; adds: the
\* adds that succeeded so far; cut: a purge or an rtt that found its entry
\* was among the operations so far
NoTx ==
    [op |-> "init", seqno |-> SeqZero, ok |-> TRUE, ret |-> 0,
     rtt |-> U32Of(0), t |-> WallStart, pre |-> <<>>,
     adds |-> 0, cut |-> FALSE]

\* the null pointer
NULL == 0

\* no allocator operation yet. fail: the call of kmem_cache_alloc that
\* failed (TFRC_NDUPACK + 1: none); got: the objects it handed out; ret:
\* the int returned; pre_slots, pre_live, pre_h: the state before
NoAlloc ==
    [op |-> "init", fail |-> TFRC_NDUPACK + 1, got |-> <<>>, ret |-> 0,
     pre_slots |-> [i \in Slots |-> NULL], pre_live |-> {},
     pre_h |-> [loss_count |-> 0, loss_start |-> 0],
     read |-> [i \in Slots |-> NULL], before |-> [op |-> "init", ret |-> 0, fail |-> TFRC_NDUPACK + 1]]

\* no call of the sequence arithmetic yet. a, b, c: the arguments; delta:
\* dccp_delta_seqno(a, b); back: dccp_delta_seqno(b, a); before, after:
\* before48(a, b), after48(a, b); rafter: after48(b, a); between:
\* between48(b, a, c)
NoArith ==
    [op |-> "init", a |-> SeqZero, b |-> SeqZero, c |-> SeqZero,
     delta |-> SeqZero, back |-> SeqZero, before |-> FALSE, after |-> FALSE,
     rafter |-> FALSE, between |-> FALSE]

\* the sampler, the Tx history and the allocator before their first use
\* no packet after the anchor yet. got: the offsets k of the packets a + k
\* that arrived; few: at every moment so far fewer than TFRC_NDUPACK of them
\* lay after the lowest offset still missing; lost: tfrc_lh_interval_add
\* was called, or tfrc_rx_handle_loss returned 1, for one of them
NoArrived == [got |-> {}, few |-> TRUE, lost |-> FALSE]

InitSide ==
    /\ tx_head = <<>>
    /\ tx = NoTx
    /\ slots = [i \in Slots |-> NULL]
    /\ live = {}
    /\ alloc = NoAlloc
    /\ arith = NoArith
    /\ arrived = NoArrived

InitExt ==
    /\ wall = WallStart
    /\ sample = NoSample
    /\ InitSide

\* li: what tfrc_lh_interval_add answered
NoRet == [dup |-> -1, nli |-> -1, hl |-> -1, two |-> -1, li |-> -1]

\* after tfrc_rx_hist_alloc: loss_count = loss_start = 0, entries not written
Init ==
    /\ isr \in {SeqBase, ScenBase}
    /\ ring \in { [i \in Slots |-> Garbage(g)] : g \in GarbageSeqs(isr) }
    /\ loss_count = 0
    /\ loss_start = 0
    /\ now = 0
    /\ op = "init"
    /\ pkt = NoPkt
    /\ ret = NoRet
    /\ pre = H
    /\ li_calls = 0
    /\ li_saw = NoSaw
    /\ bugs = 0
    /\ scen = 0
    /\ run = 0
    /\ InitExt

SetH(h) ==
    /\ ring' = h.ring
    /\ loss_count' = h.loss_count
    /\ loss_start' = h.loss_start

\* every operation reads the clock once; it has moved on since the last one
Clock ==
    /\ now < MaxNow
    /\ now' = now + 1
    /\ UNCHANGED isr
    /\ UNCHANGED ext_vars

\* the arrival trace 100, 103, 102, 101 (NDP count 0): how many of its
\* packets the last arrivals were, the first one having become the anchor
ScenTrace == <<SeqOf(100), SeqOf(103), SeqOf(102), SeqOf(101)>>

ScenNext(p, h) ==
    IF scen \in 1 .. 3 /\ p.seq = ScenTrace[scen + 1] /\ p.ndp = 0
    THEN scen + 1
    ELSE IF /\ p.seq = ScenTrace[1] /\ p.ndp = 0
            /\ h.loss_count = 0 /\ tfrc_rx_hist_loss_prev(h).seqno = p.seq
         THEN 1
         ELSE 0

\* a run of in-order arrivals a+1, a+2, .. (NDP count 0) that began with no
\* gap pending and the anchor at a: its length after the arrival of p
RunNext(p) ==
    LET one == seq_add(SeqZero, SeqOf(1))
    IN  IF p.ndp = 0 /\ run > 0 /\ p.seq = seq_add(pkt.seq, one)
        THEN run + 1
        ELSE IF /\ p.ndp = 0 /\ loss_count = 0
                /\ p.seq = seq_add(tfrc_rx_hist_loss_prev(H).seqno, one)
             THEN 1
             ELSE 0

\* The receive path of the caller: duplicates are dropped; a packet that is
\* no duplicate goes to handle_loss when a gap is pending, and otherwise to
\* new_loss_indicated and then add_packet.
Received(p, r) ==
    LET h   == H
        t   == now + 1
        dup == tfrc_rx_hist_duplicate(h, p)
        hl  == tfrc_rx_handle_loss(h, p, p.ndp, t, r)
        nli == tfrc_rx_hist_new_loss_indicated(h, p, p.ndp)
        h2  == IF dup # 0 THEN h
               ELSE IF tfrc_rx_hist_loss_pending(h) # 0 THEN hl.h
               ELSE tfrc_rx_hist_add_packet(nli.h, p, p.ndp, t)
        pending == dup = 0 /\ tfrc_rx_hist_loss_pending(h) # 0
    IN  /\ r \in (IF pending /\ hl.li_calls > 0 THEN LiAnswers ELSE {0})
        /\ SetH(h2)
        /\ op' = "receive"
        /\ pkt' = p
        /\ pre' = h
        /\ ret' = [dup |-> dup,
                   nli |-> IF dup = 0 /\ ~pending THEN nli.ret ELSE -1,
                   hl  |-> IF pending THEN hl.ret ELSE -1,
                   two |-> IF pending THEN hl.two ELSE -1,
                   li  |-> IF pending /\ hl.li_calls > 0 THEN r ELSE -1]
        /\ li_calls' = (IF pending THEN hl.li_calls ELSE 0)
        /\ li_saw' = (IF pending THEN hl.li_saw ELSE NoSaw)
        /\ bugs' = (IF pending THEN hl.bugs ELSE 0)
        /\ scen' = ScenNext(p, h2)
        /\ run' = RunNext(p)

Receive(p, r) == Clock /\ Received(p, r)

Next == \E p \in Packets(isr), r \in LiAnswers : Receive(p, r)

Spec == Init /\ [][Next]_vars

----------------------------------------------------------------------------
(* The operations of the history called one by one, in any order *)

ApiOffsets == {1, 3}

ApiPackets(base) ==
    { MkPacket(seq_add(base, SeqOf(k)), k, n) :
          k \in ApiOffsets, n \in NdpInputs }
    \cup { MkPacket(seq_add(base, FarOff), MaxSeqOff + 1, 0) }

\* what an operation called on its own leaves in the observation variables
Called(name, p, r) ==
    /\ Clock
    /\ op' = name
    /\ pkt' = p
    /\ pre' = H
    /\ ret' = r
    /\ scen' = 0
    /\ run' = 0

Duplicate(p) ==
    /\ Called("duplicate", p,
              [NoRet EXCEPT !.dup = tfrc_rx_hist_duplicate(H, p)])
    /\ UNCHANGED <<ring, loss_count, loss_start, li_calls, li_saw, bugs>>

NewLossIndicated(p) ==
    LET nli == tfrc_rx_hist_new_loss_indicated(H, p, p.ndp)
    IN  /\ Called("new_loss_indicated", p, [NoRet EXCEPT !.nli = nli.ret])
        /\ SetH(nli.h)
        /\ UNCHANGED <<li_calls, li_saw, bugs>>

AddPacket(p) ==
    /\ Called("add_packet", p, NoRet)
    /\ SetH(tfrc_rx_hist_add_packet(H, p, p.ndp, now + 1))
    /\ UNCHANGED <<li_calls, li_saw, bugs>>

HandleLoss(p, r) ==
    LET hl == tfrc_rx_handle_loss(H, p, p.ndp, now + 1, r)
    IN  /\ r \in (IF hl.li_calls > 0 THEN LiAnswers ELSE {0})
        /\ Called("handle_loss", p,
                  [NoRet EXCEPT !.hl = hl.ret, !.two = hl.two,
                                !.li = IF hl.li_calls > 0 THEN r ELSE -1])
        /\ SetH(hl.h)
        /\ li_calls' = hl.li_calls
        /\ li_saw' = hl.li_saw
        /\ bugs' = hl.bugs

NextApi ==
    \/ \E p \in ApiPackets(isr) : Duplicate(p)
    \/ \E p \in ApiPackets(isr) : NewLossIndicated(p)
    \/ \E p \in ApiPackets(isr) : AddPacket(p)
    \/ \E p \in ApiPackets(isr), r \in LiAnswers : HandleLoss(p, r)

SpecApi == Init /\ [][NextApi]_vars

----------------------------------------------------------------------------
(* The receive path with RTT sampling: a packet that is no duplicate, and  *)
(* neither meets nor opens a gap, is given to the sampler before it is     *)
(* stored.                                                                  *)

\* a run of the sampler has at most MaxRttOps arrivals
MaxRttOps == 4

\* time between two arrivals, in microseconds: a millisecond, more than
\* the sanity maximum, and 2^32 + 1000 (more than a u32 holds)
DtShort == Seq48(0, 1000)

DtLong == Seq48(0, 5 * 1000000)

DtWrap == Seq48(256, 1000)

\* the window counters the packet with offset k may carry
CcvalAt == <<{0, 1, 4, 5}, {0, 2}, {0, 5}, {0, 5}>>

\* An arrival: the packet and the time since the arrival before it.  The
\* packets isr + 1 .. isr + 4 with some window counters each, one
\* millisecond apart, and isr + 1 also after the longer times.
RttArrivals(base) ==
    { [seq |-> seq_add(base, SeqOf(k)), ndp |-> 0, ccval |-> c, type |-> 2,
       dt |-> DtShort] : k \in {1}, c \in CcvalAt[1] }
    \cup { [seq |-> seq_add(base, SeqOf(2)), ndp |-> 0, ccval |-> c,
            type |-> 2, dt |-> DtShort] : c \in CcvalAt[2] }
    \cup { [seq |-> seq_add(base, SeqOf(3)), ndp |-> 0, ccval |-> c,
            type |-> 2, dt |-> DtShort] : c \in CcvalAt[3] }
    \cup { [seq |-> seq_add(base, SeqOf(4)), ndp |-> 0, ccval |-> c,
            type |-> 2, dt |-> DtShort] : c \in CcvalAt[4] }
    \cup { [seq |-> seq_add(base, SeqOf(1)), ndp |-> 0, ccval |-> 4,
            type |-> 2, dt |-> d] : d \in {DtLong, DtWrap} }

\* the skb of an arrival
SkbOf(a) == [seq |-> a.seq, ndp |-> a.ndp, ccval |-> a.ccval, type |-> a.type]

\* The history after tfrc_rx_hist_alloc and the first packet of the
\* connection (sequence number isr, window counter 0), which is stored by
\* add_packet before any sample is taken; the other entries are as
\* kmem_cache_alloc left them.
InitRtt ==
    /\ isr = ScenBase
    /\ ring = [i \in Slots |->
                 IF i = 0
                 THEN [seqno |-> isr, ccval |-> 0, type |-> 2, ndp |-> 0,
                       tstamp |-> WallStart]
                 ELSE [Garbage(isr) EXCEPT !.tstamp = SeqZero]]
    /\ loss_count = 0
    /\ loss_start = 0
    /\ now = 0
    /\ op = "init"
    /\ pkt = NoPkt
    /\ ret = NoRet
    /\ pre = H
    /\ li_calls = 0
    /\ li_saw = NoSaw
    /\ bugs = 0
    /\ scen = 0
    /\ run = 0
    /\ InitExt

RttReceive(a, r) ==
    LET h   == H
        p   == SkbOf(a)
        t   == seq_add(wall, a.dt)
        dup == tfrc_rx_hist_duplicate(h, p)
        pending == dup = 0 /\ tfrc_rx_hist_loss_pending(h) # 0
        hl  == tfrc_rx_handle_loss(h, p, p.ndp, t, r)
        nli == tfrc_rx_hist_new_loss_indicated(h, p, p.ndp)
        sampled == dup = 0 /\ ~pending /\ nli.ret = 0
        smp == tfrc_rx_hist_sample_rtt(nli.h, p, t)
        h2  == IF dup # 0 THEN h
               ELSE IF pending THEN hl.h
               ELSE tfrc_rx_hist_add_packet(IF sampled THEN smp.h ELSE nli.h,
                                            p, p.ndp, t)
    IN  /\ now < MaxRttOps
        /\ now' = now + 1
        /\ wall' = t
        /\ r \in (IF pending /\ hl.li_calls > 0 THEN LiAnswers ELSE {0})
        /\ SetH(h2)
        /\ op' = "rtt_receive"
        /\ pkt' = p
        /\ pre' = h
        /\ ret' = [dup |-> dup,
                   nli |-> IF dup = 0 /\ ~pending THEN nli.ret ELSE -1,
                   hl  |-> IF pending THEN hl.ret ELSE -1,
                   two |-> IF pending THEN hl.two ELSE -1,
                   li  |-> IF pending /\ hl.li_calls > 0 THEN r ELSE -1]
        /\ li_calls' = (IF pending THEN hl.li_calls ELSE 0)
        /\ li_saw' = (IF pending THEN hl.li_saw ELSE NoSaw)
        /\ bugs' = (IF pending THEN hl.bugs
                    ELSE IF sampled THEN smp.bugs ELSE 0)
        /\ sample' = [called  |-> sampled,
                      ret     |-> IF sampled THEN smp.ret ELSE U32Of(0),
                      flag    |-> IF sampled THEN smp.h.loss_start
                                  ELSE sample.flag,
                      was     |-> sample.flag,
                      follows |-> sample.called /\ sample.ret # U32Of(0)]
        /\ UNCHANGED <<isr, scen, run>>
        /\ UNCHANGED side_vars

NextRtt == \E a \in RttArrivals(isr), r \in LiAnswers : RttReceive(a, r)

SpecRtt == InitRtt /\ [][NextRtt]_vars

----------------------------------------------------------------------------
(* tfrc_rx_hist_sample_rtt called on its own, on any history *)

\* calls made on one history
MaxSampleOps == 2

\* window counters of the reference entry and of the packets sampled
SampleRefCcvals == {0, 14}

SampleCcvals == {0, 1, 3, 4, 5, 15}

\* how far the window counter of ring[1] and ring[2] is ahead of ring[0]'s
SampleAhead == {0, 1, 2}

\* a written entry: sequence number base + k, arrived k ms after WallStart
SampleEntry(base, k, cc) ==
    [seqno |-> seq_add(base, SeqOf(k)), ccval |-> cc % 16, type |-> 2,
     ndp |-> 0, tstamp |-> seq_add(WallStart, Seq48(0, 1000 * k))]

\* any value of rtt_sample_prev, the reference in ring[0], later entries
\* in ring[1] and ring[2]
InitSample ==
    /\ isr = ScenBase
    /\ \E c0 \in SampleRefCcvals, d \in SampleAhead :
           ring = [i \in Slots |->
                     IF i = 0 THEN SampleEntry(isr, 0, c0)
                     ELSE IF i = 3 THEN [Garbage(isr) EXCEPT !.tstamp = SeqZero]
                     ELSE SampleEntry(isr, i, c0 + d)]
    /\ loss_count = 0
    /\ loss_start \in Slots
    /\ now = 0
    /\ op = "init"
    /\ pkt = NoPkt
    /\ ret = NoRet
    /\ pre = H
    /\ li_calls = 0
    /\ li_saw = NoSaw
    /\ bugs = 0
    /\ scen = 0
    /\ run = 0
    /\ wall = seq_add(WallStart, Seq48(0, 2000))
    /\ sample = [NoSample EXCEPT !.flag = loss_start]
    /\ InitSide

SampleRtt(cc, dt) ==
    LET t   == seq_add(wall, dt)
        p   == [seq |-> seq_add(isr, SeqOf(3)), ndp |-> 0, ccval |-> cc,
                type |-> 2]
        smp == tfrc_rx_hist_sample_rtt(H, p, t)
    IN  /\ now < MaxSampleOps
        /\ now' = now + 1
        /\ wall' = t
        /\ SetH(smp.h)
        /\ op' = "sample_rtt"
        /\ pkt' = p
        /\ pre' = H
        /\ bugs' = smp.bugs
        /\ sample' = [called  |-> TRUE,
                      ret     |-> smp.ret,
                      flag    |-> smp.h.loss_start,
                      was     |-> loss_start,
                      follows |-> sample.called /\ sample.ret # U32Of(0)]
        /\ UNCHANGED <<ret, li_calls, li_saw, scen, run, isr>>
        /\ UNCHANGED side_vars

NextSample == \E cc \in SampleCcvals, dt \in {DtShort, DtWrap} : SampleRtt(cc, dt)

SpecSample == InitSample /\ [][NextSample]_vars

----------------------------------------------------------------------------
(* The vocabulary of the claims: the circular 48-bit order, and the fields *)
(* of the history before (pre) and after (H) the last operation            *)

One == SeqOf(1)

\* the distance d is greater than 1
GtOne(d) == d # SeqZero /\ d # One

\* n < d, for an NDP count n and a distance d
NdpBelow(n, d) == ~SeqLeq(d, SeqOf(n))

\* the anchor and the pending entries before and after the operation
PreEntry(i) == tfrc_rx_hist_entry(pre, i)

CurEntry(i) == tfrc_rx_hist_entry(H, i)

\* b (with NDP count n) is a valid successor of a: the distance is 1, or the
\* NDP count accounts for all of it
ValidSuccessor(a, b, n) ==
    LET d == dccp_delta_seqno(a, b)
    IN  d = One \/ SeqLeq(d, SeqOf(n))

\* the record of the last packet, as it is stored
PktEntry ==
    [seqno |-> pkt.seq, ccval |-> pkt.ccval, type |-> pkt.type,
     ndp |-> pkt.ndp, tstamp |-> now]

\* the last operation ran handle_loss
RanHandleLoss == ret.hl # -1

\* every tracked entry was written by add_packet or handle_loss (which stamp
\* it with a time after 0), none is still as tfrc_rx_hist_alloc left it:
\* before the last operation, and after it
PreWritten == \A i \in 0 .. pre.loss_count : PreEntry(i).tstamp > 0

CurWritten == \A i \in 0 .. loss_count : CurEntry(i).tstamp > 0

\* the anchor of the history h is not circularly after any tracked entry
AnchorFirst(h) ==
    \A i \in 1 .. h.loss_count :
        ~after48(tfrc_rx_hist_entry(h, 0).seqno, tfrc_rx_hist_entry(h, i).seqno)

----------------------------------------------------------------------------
(* Claims *)

\* C1: in every state reached through the receive path, loss_count is in
\* 0..3 and the anchor entry(0) is not circularly after any tracked entry(i),
\* 1 <= i <= loss_count. Stated as what every step of the receive path
\* keeps, for the histories whose tracked entries hold received packets: if
\* the anchor was after no tracked entry before the step, it is after none
\* after it.
C1_AnchorNotAfterTracked ==
    /\ loss_count \in 0 .. 3
    /\ (PreWritten /\ CurWritten /\ AnchorFirst(pre)) => AnchorFirst(H)

\* C2: duplicate(seq) returns true exactly when seq is not after the
\* anchor's sequence number or equals the sequence number of a pending entry.
\* Stated for the histories whose tracked entries hold received packets.
C2_DuplicateExact ==
    (ret.dup # -1 /\ PreWritten) =>
        ((ret.dup = 1) <=>
            \/ ~after48(pkt.seq, PreEntry(0).seqno)
            \/ \E i \in 1 .. pre.loss_count : PreEntry(i).seqno = pkt.seq)

\* C3: with d = delta(anchor.seq, record.seq), new_loss_indicated returns
\* true and sets loss_count to 1 if d > 1 and ndp < d; otherwise it returns
\* false and leaves the history unchanged, whatever loss_count was. Stated
\* for the histories whose tracked entries hold received packets.
C3_NewLossIndicated ==
    (op = "new_loss_indicated" /\ PreWritten) =>
        LET d == dccp_delta_seqno(PreEntry(0).seqno, pkt.seq)
        IN  IF GtOne(d) /\ NdpBelow(pkt.ndp, d)
            THEN /\ ret.nli = 1
                 /\ H = [pre EXCEPT !.loss_count = 1]
            ELSE /\ ret.nli = 0
                 /\ H = pre

\* what add_packet leaves when it writes the record into entry(n)
AddPacketWrote(n) ==
    /\ loss_count = pre.loss_count
    /\ loss_start = pre.loss_start
    /\ ring = [pre.ring EXCEPT ![tfrc_rx_hist_index(pre, n)] = PktEntry]

C5_SinkOncePerConfirmedLoss ==
    RanHandleLoss =>
        /\ li_calls = (IF ret.two = 1 THEN 1 ELSE 0)
        /\ pre.loss_count = 1 => li_calls = 0
        /\ li_calls = 1 =>
              /\ pre.loss_count = 2
              /\ li_saw.loss_count = 3
              /\ tfrc_rx_hist_entry(li_saw, 0) = PreEntry(0)
              /\ { tfrc_rx_hist_entry(li_saw, i) : i \in 1 .. 3 }
                     = { PreEntry(1), PreEntry(2), PktEntry }
        /\ (li_calls = 0 /\ pre.loss_count = 2) =>
              /\ loss_count <= 2
              /\ \A i \in 1 .. loss_count : CurEntry(i) # PktEntry

\* the sink was invoked by a handle_loss call of the receive path
C5_Witness ==
    op = "receive" /\ RanHandleLoss /\ li_calls = 1 /\ ret.hl = 1

\* C6: a call to handle_loss when loss_count is neither 1 nor 2 faults
\* instead of returning a normal "no new loss" result.
C6_InvalidLossCountFaults ==
    (op = "handle_loss" /\ pre.loss_count \notin {1, 2}) => ret.hl = Fault

\* C7: for a run of arrivals a+1, a+2, .. modulo 2^48 with NDP count 0, from
\* the anchor a: duplicate is false and new_loss_indicated is false for each,
\* loss_count is 0 after every step and the anchor holds the arrival.
C7_InOrderRun ==
    run > 0 =>
        /\ ret.dup = 0
        /\ ret.nli = 0
        /\ loss_count = 0
        /\ CurEntry(0).seqno = pkt.seq

\* a run of at least three arrivals that has just crossed the wrap to 0
C7_Witness ==
    run >= 3 /\ pkt.seq = SeqZero /\ op = "receive"

\* C8: with no gap pending and the anchor at a, a non-duplicate packet a+d
\* (d > 1, ndp < d) makes new_loss_indicated return true, loss_count 1,
\* entry(1) hold a+d and entry(0) still hold a. Stated for an anchor that
\* holds a received packet.
C8_GapOpens ==
    LET d == dccp_delta_seqno(PreEntry(0).seqno, pkt.seq)
    IN  (/\ op = "receive" /\ pre.loss_count = 0 /\ ret.dup = 0
         /\ PreWritten
         /\ after48(pkt.seq, PreEntry(0).seqno)
         /\ GtOne(d) /\ NdpBelow(pkt.ndp, d))
        => /\ ret.nli = 1
           /\ loss_count = 1
           /\ CurEntry(1).seqno = pkt.seq
           /\ CurEntry(0) = PreEntry(0)

\* C9: with anchor S0 and one pending entry S1, an arrival S2 between them
\* that is no valid successor of S0 leaves loss_count 2 and the order
\* entry(0) = S0, entry(1) = S2, entry(2) = S1; handle_loss returns false
\* and the sink is not invoked. Stated for S0 and S1 that are received
\* packets.
C9_OnePendingReorder ==
    LET s0 == PreEntry(0).seqno
        s1 == PreEntry(1).seqno
        d  == dccp_delta_seqno(s0, pkt.seq)
    IN  (/\ op = "receive" /\ pre.loss_count = 1 /\ ret.dup = 0
         /\ PreWritten
         /\ after48(pkt.seq, s0) /\ before48(pkt.seq, s1)
         /\ GtOne(d) /\ NdpBelow(pkt.ndp, d))
        => /\ loss_count = 2
           /\ CurEntry(0) = PreEntry(0)
           /\ CurEntry(1) = PktEntry
           /\ CurEntry(2) = PreEntry(1)
           /\ ret.hl = 0
           /\ li_calls = 0

\* C10: for the arrival trace 100, 103, 102, 101 the handle_loss call for
\* 101 returns false without invoking the sink, and leaves loss_count 0 and
\* the anchor at 103; in general, with S0, S1, S2 tracked and an arrival S3
\* such that S3 is a valid successor of S0, S1 of S3 and S2 of S1,
\* handle_loss returns false, loss_count becomes 0 and the anchor becomes S2.
C10_FullResolution ==
    /\ scen = 4 =>
          /\ RanHandleLoss /\ ret.hl = 0 /\ li_calls = 0
          /\ loss_count = 0
          /\ CurEntry(0).seqno = SeqOf(103)
    /\ (/\ op = "receive" /\ ret.dup = 0 /\ pre.loss_count = 2
        /\ ValidSuccessor(PreEntry(0).seqno, pkt.seq, pkt.ndp)
        /\ ValidSuccessor(pkt.seq, PreEntry(1).seqno, PreEntry(1).ndp)
        /\ ValidSuccessor(PreEntry(1).seqno, PreEntry(2).seqno,
                          PreEntry(2).ndp))
       => /\ ret.hl = 0
          /\ li_calls = 0
          /\ loss_count = 0
          /\ CurEntry(0) = PreEntry(2)

\* the trace 100, 103, 102, 101 has just been received
C10_Witness ==
    scen = 4 /\ op = "receive" /\ pre.loss_count = 2

----------------------------------------------------------------------------
(* The vocabulary of the sampler's claims *)

\* the reference entry and the candidate entry when the sampler was called
RttLast == pre.ring[0]

RttPrev == pre.ring[2]

\* delta_v of the arrival, and raw of the candidate
DeltaV == (pkt.ccval - RttLast.ccval) % 16

RttRaw == (RttPrev.ccval - RttLast.ccval) % 16

\* the sampler believed that a candidate was stored
FlagSaysCandidate == pre.loss_start = 2

\* microseconds from the reference's arrival to this arrival, and from the
\* reference's arrival to the candidate's
RttElapsed == ktime_us_delta(wall, RttLast.tstamp)

RttInterval == ktime_us_delta(RttPrev.tstamp, RttLast.tstamp)

\* the exact value d (not negative) exceeds the sanity maximum
AboveMax(d) == ~S64Neg(d) /\ (d.hi > 0 \/ d.lo > 4 * 1000000)

\* d limited to the sanity maximum
Limited(d) == IF AboveMax(d) THEN U32Of(4 * 1000000) ELSE d

\* C11: when the record's window counter is exactly 4 ahead of the
\* reference entry's, sample_rtt returns the time elapsed between the
\* reference's arrival and the record's, limited to the sanity maximum,
\* whatever the candidate state is.
C11_OptimalMatch ==
    (sample.called /\ DeltaV = 4) => sample.ret = Limited(RttElapsed)

\* the arrival is a new packet: circularly after the anchor
NewArrival == after48(pkt.seq, PreEntry(0).seqno)

\* the record of the arrival as add_packet stores it
RttPktEntry ==
    [seqno |-> pkt.seq, ccval |-> pkt.ccval, type |-> pkt.type,
     ndp |-> pkt.ndp, tstamp |-> wall]

\* the candidate interval scaled by the integer quotient 4 / raw
RttScaled == S64Scale(4 \div RttRaw, RttInterval)

\* C12 (as amended): when 1 <= delta_v <= 3, whether or not a candidate is
\* stored, sample_rtt returns 0, sets rtt_sample_prev to 2 (the record,
\* once stored, is the candidate) and changes nothing else of the history.
C12_SuboptimalDefers ==
    (sample.called /\ DeltaV \in 1 .. 3) =>
        /\ sample.ret = U32Of(0)
        /\ sample.flag = 2
        /\ [H EXCEPT !.loss_start = pre.loss_start] = pre

\* C12 (as claimed): when 1 <= delta_v <= 3 and a candidate is stored, with
\* raw # 0, sample_rtt returns (4 / raw) * (prev.tstamp - last.tstamp),
\* limited to the sanity maximum.
C12_SuboptimalFromCandidate ==
    (/\ sample.called /\ DeltaV \in 1 .. 3
     /\ sample.was = 2 /\ FlagSaysCandidate /\ RttRaw # 0)
    => sample.ret = Limited(RttScaled)

\* a record with 1 <= delta_v <= 3 arrived while a candidate was stored
C12_Witness ==
    /\ sample.called /\ DeltaV \in 1 .. 3
    /\ sample.was = 2 /\ FlagSaysCandidate /\ RttRaw # 0

\* C13: when the sampler has stored no candidate and delta_v is 0, 1, 2 or
\* 3, sample_rtt returns 0, marks a candidate as pending (it does not reset
\* rtt_sample_prev to 0) and the reference entry is untouched after the
\* record has been stored.  Stated for the arrival of a new packet.
C13_NoCandidateDefers ==
    (sample.called /\ NewArrival /\ sample.was # 2 /\ DeltaV \in 0 .. 3) =>
        /\ sample.ret = U32Of(0)
        /\ loss_start \in {1, 2}
        /\ ring[0] = pre.ring[0]

\* the value the code computes, taken exactly, exceeds the sanity maximum
RttExactAboveMax ==
    IF DeltaV = 4 THEN AboveMax(RttElapsed)
    ELSE /\ FlagSaysCandidate /\ RttRaw # 0
         /\ ~S64Neg(RttInterval)
         /\ 4 \div RttRaw > 0
         /\ \/ RttInterval.hi > 0
            \/ (4 \div RttRaw) * RttInterval.lo > 4 * 1000000

\* C14: the value returned by sample_rtt is at most the sanity maximum,
\* and it equals the sanity maximum whenever the computed sample, taken as
\* an exact integer, exceeds it.
C14_Clamped ==
    sample.called =>
        /\ ~U32Gt(sample.ret, U32Of(4 * 1000000))
        /\ RttExactAboveMax => sample.ret = U32Of(4 * 1000000)

\* C15: when a sample is to be computed from the stored candidate and raw
\* is 0, sample_rtt reports the fault, returns 0 and returns normally; the
\* sampler is reset and the record is stored as the next reference.
C15_RawZero ==
    (/\ sample.called /\ (DeltaV = 0 \/ DeltaV > 4)
     /\ FlagSaysCandidate /\ RttRaw = 0)
    => /\ sample.ret = U32Of(0)
       /\ bugs = 1
       /\ loss_start = 0
       /\ loss_count = 0
       /\ ring = [pre.ring EXCEPT ![0] = RttPktEntry]

\* the sampler was to compute a sample from a candidate with raw = 0
C15_Witness ==
    /\ sample.called /\ (DeltaV = 0 \/ DeltaV > 4)
    /\ FlagSaysCandidate /\ RttRaw = 0

\* C16: the reference entry that sample_rtt compares the record against is
\* the anchor entry(0).  Stated for the arrival of a new packet at which
\* the sampler itself holds no candidate and keeps no older reference (it
\* had reset rtt_sample_prev to 0).
C16_ReferenceIsAnchor ==
    (sample.called /\ NewArrival /\ sample.was = 0) => RttLast = PreEntry(0)

----------------------------------------------------------------------------
(* Transmitter history: a singly linked chain, kept as the sequence of its *)
(* entries from the head; a pointer into the chain is a position, NULL   *)
(* the position after the last entry                                       *)

ENOBUFS == 105

\* struct tfrc_tx_hist_entry without its link
TxEntry(seqno, stamp) == [seqno |-> seqno, stamp |-> stamp]

\* the position given when the pointer `head' is NULL
TxNull(chain) == Len(chain) + 1

\* tfrc_tx_hist_find_entry - lookup by sequence number, from position head
RECURSIVE tfrc_tx_hist_find_entry(_, _, _)
tfrc_tx_hist_find_entry(chain, head, seqno) ==
    IF head # TxNull(chain) /\ chain[head].seqno # seqno
    THEN tfrc_tx_hist_find_entry(chain, head + 1, seqno)
    ELSE head

\* tfrc_tx_hist_add with the entry appended at the far end of the chain
tfrc_tx_hist_add_at_tail(chain, seqno, t, ok) ==
    IF ~ok THEN [chain |-> chain, ret |-> 0 - ENOBUFS]
    ELSE [chain |-> Append(chain, TxEntry(seqno, t)), ret |-> 0]

\* tfrc_tx_hist_add keeping the chain at two entries: the oldest entry
\* makes room for the new one
tfrc_tx_hist_add_evicting(chain, seqno, t, ok) ==
    IF ~ok THEN [chain |-> chain, ret |-> 0 - ENOBUFS]
    ELSE [chain |-> <<TxEntry(seqno, t)>>
                        \o SubSeq(chain, 1, IF Len(chain) < 2 THEN Len(chain)
                                            ELSE 1),
          ret |-> 0]

\* tfrc_tx_hist_add; ok: kmem_cache_alloc gave an entry; t: ktime_get_real()
tfrc_tx_hist_add(chain, seqno, t, ok) ==
    IF ~ok THEN [chain |-> chain, ret |-> 0 - ENOBUFS]
    ELSE [chain |-> <<TxEntry(seqno, t)>> \o chain, ret |-> 0]

\* tfrc_tx_hist_purge(&p) where p is the link at position head: every entry
\* from there on is freed, one by one, and the link is set to NULL
RECURSIVE tfrc_tx_hist_purge(_, _)
tfrc_tx_hist_purge(chain, head) ==
    IF head # TxNull(chain)
    THEN tfrc_tx_hist_purge(SubSeq(chain, 1, head - 1)
                              \o SubSeq(chain, head + 1, Len(chain)), head)
    ELSE chain

\* tfrc_tx_hist_rtt that frees the chain from the matched entry on
tfrc_tx_hist_rtt_purge_match(chain, seqno, t) ==
    LET packet == tfrc_tx_hist_find_entry(chain, 1, seqno)
    IN  IF packet # TxNull(chain)
        THEN [rtt |-> ToU32(ktime_us_delta(t, chain[packet].stamp)),
              chain |-> tfrc_tx_hist_purge(chain, packet)]
        ELSE [rtt |-> U32Of(0), chain |-> chain]

\* tfrc_tx_hist_rtt(head, seqno, now): the u32 returned and the chain left
tfrc_tx_hist_rtt(chain, seqno, t) ==
    LET packet == tfrc_tx_hist_find_entry(chain, 1, seqno)
    IN  IF packet # TxNull(chain)
        THEN [rtt |-> ToU32(ktime_us_delta(t, chain[packet].stamp)),
              chain |-> tfrc_tx_hist_purge(chain, packet + 1)]
        ELSE [rtt |-> U32Of(0), chain |-> chain]

----------------------------------------------------------------------------
(* The operations of the Tx history called in any order *)

\* operations made on one chain
MaxTxOps == 4

\* sequence numbers sent; two of them differ in the upper 24 bits only
TxSeqs == {Seq48(0, 1), Seq48(0, 2), Seq48(1, 1)}

\* time between two Tx operations
TxDelays == {DtShort, DtWrap}

TxCalled(name, seqno, t) ==
    /\ now < MaxTxOps
    /\ now' = now + 1
    /\ wall' = t
    /\ UNCHANGED <<ring, loss_count, loss_start, op, pkt, ret, pre,
                   li_calls, li_saw, bugs, scen, run, isr, sample,
                   slots, live, alloc, arith, arrived>>

TxAdd(seqno, ok) ==
    LET t == seq_add(wall, DtShort)
        r == tfrc_tx_hist_add(tx_head, seqno, t, ok)
    IN  /\ TxCalled("add", seqno, t)
        /\ tx_head' = r.chain
        /\ tx' = [op |-> "add", seqno |-> seqno, ok |-> ok, ret |-> r.ret,
                  rtt |-> U32Of(0), t |-> t, pre |-> tx_head,
                  adds |-> IF r.ret = 0 THEN tx.adds + 1 ELSE tx.adds,
                  cut |-> tx.cut]

TxRtt(seqno, dt) ==
    LET t == seq_add(wall, dt)
        r == tfrc_tx_hist_rtt(tx_head, seqno, t)
    IN  /\ TxCalled("rtt", seqno, t)
        /\ tx_head' = r.chain
        /\ tx' = [op |-> "rtt", seqno |-> seqno, ok |-> TRUE, ret |-> 0,
                  rtt |-> r.rtt, t |-> t, pre |-> tx_head,
                  adds |-> tx.adds,
                  cut |-> tx.cut \/ \E i \in 1 .. Len(tx_head) :
                                        tx_head[i].seqno = seqno]

TxPurge ==
    LET t == seq_add(wall, DtShort)
    IN  /\ TxCalled("purge", SeqZero, t)
        /\ tx_head' = tfrc_tx_hist_purge(tx_head, 1)
        /\ tx' = [op |-> "purge", seqno |-> SeqZero, ok |-> TRUE, ret |-> 0,
                  rtt |-> U32Of(0), t |-> t, pre |-> tx_head,
                  adds |-> tx.adds, cut |-> TRUE]

NextTx ==
    \/ \E seqno \in TxSeqs, ok \in BOOLEAN : TxAdd(seqno, ok)
    \/ \E seqno \in TxSeqs, dt \in TxDelays : TxRtt(seqno, dt)
    \/ TxPurge

SpecTx == Init /\ [][NextTx]_vars

----------------------------------------------------------------------------
(* The vocabulary of the Tx history's claims *)

\* the positions of the chain before the operation that hold seqno
TxMatches == { i \in 1 .. Len(tx.pre) : tx.pre[i].seqno = tx.seqno }

\* the first of them from the head
TxFirst == CHOOSE i \in TxMatches : \A j \in TxMatches : i <= j

\* C17: add(seqno) returns 0 and puts the entry (seqno, current time) in
\* front of the previous chain, which is unchanged and in the same order;
\* when the entry cannot be allocated it returns an error and the chain is
\* unchanged.
C17_TxAdd ==
    tx.op = "add" =>
        IF tx.ok
        THEN /\ tx.ret = 0
             /\ tx_head = <<TxEntry(tx.seqno, wall)>> \o tx.pre
        ELSE /\ tx.ret < 0
             /\ tx_head = tx.pre

\* an entry was added in front of a chain of two entries
C17_Witness ==
    /\ tx.op = "add" /\ tx.ok /\ Len(tx.pre) = 2
    /\ tx.pre[1].seqno # tx.pre[2].seqno

\* C18: rtt(seqno, now) returns now minus the send timestamp of the first
\* entry from the head whose sequence number is seqno, and 0 when no entry
\* has that sequence number.
C18_TxRtt ==
    tx.op = "rtt" =>
        IF TxMatches # {}
        THEN tx.rtt = ktime_us_delta(tx.t, tx.pre[TxFirst].stamp)
        ELSE tx.rtt = U32Of(0)

\* C19: after rtt(seqno, now) found a match the chain is the matched entry
\* and every entry newer than it, in unchanged order; without a match the
\* chain is unchanged.
C19_TxRttPurges ==
    tx.op = "rtt" =>
        IF TxMatches # {}
        THEN tx_head = SubSeq(tx.pre, 1, TxFirst)
        ELSE tx_head = tx.pre

\* rtt matched an entry that had both newer and older entries around it
C19_Witness ==
    /\ tx.op = "rtt" /\ TxMatches # {}
    /\ TxFirst > 1 /\ TxFirst < Len(tx.pre)

----------------------------------------------------------------------------
(* Allocation of the receiver history: the ring pointers and the slab      *)

\* the objects tfrc_rx_hist_slab can hand out
MaxObj == 5

SlabObjs == 1 .. MaxObj

\* a pointer that was never assigned (the value is indeterminate)
Wild == 0 - 1

\* the part of struct tfrc_rx_hist the allocator works on, and the slab
A == [slots |-> slots, live |-> live,
      loss_count |-> loss_count, loss_start |-> loss_start]

\* kmem_cache_alloc: an object that is not allocated, the first one in the
\* order the slab hands them out; NULL when there is none
kmem_cache_alloc(order, lv) ==
    LET free == { k \in 1 .. Len(order) : order[k] \notin lv }
    IN  IF free = {} THEN NULL
        ELSE order[CHOOSE k \in free : \A j \in free : k <= j]

\* kmem_cache_free
kmem_cache_free(lv, obj) == lv \ {obj}

\* out_free of tfrc_rx_hist_alloc that returns without releasing anything
tfrc_rx_hist_alloc_out_free_none(st, i) == [st |-> st, ret |-> 0 - ENOBUFS]

\* out_free of tfrc_rx_hist_alloc: while (i-- != 0) free ring[i]
RECURSIVE tfrc_rx_hist_alloc_out_free(_, _)
tfrc_rx_hist_alloc_out_free(st, i) ==
    IF i # 0
    THEN tfrc_rx_hist_alloc_out_free(
             [st EXCEPT !.live = kmem_cache_free(@, st.slots[i - 1]),
                        !.slots[i - 1] = NULL], i - 1)
    ELSE [st |-> st, ret |-> 0 - ENOBUFS]

\* the loop of tfrc_rx_hist_alloc from slot i on; the call of
\* kmem_cache_alloc for slot `fail' returns NULL
RECURSIVE tfrc_rx_hist_alloc_loop(_, _, _, _)
tfrc_rx_hist_alloc_loop(st, i, order, fail) ==
    IF i <= TFRC_NDUPACK
    THEN LET obj == IF i = fail THEN NULL
                    ELSE kmem_cache_alloc(order, st.live)
             st1 == [st EXCEPT !.slots[i] = obj,
                               !.live = IF obj = NULL THEN @ ELSE @ \cup {obj}]
         IN  IF obj = NULL
             THEN tfrc_rx_hist_alloc_out_free(st1, i)
             ELSE tfrc_rx_hist_alloc_loop(st1, i + 1, order, fail)
    ELSE [st |-> [st EXCEPT !.loss_count = 0, !.loss_start = 0], ret |-> 0]

\* tfrc_rx_hist_alloc
tfrc_rx_hist_alloc(st, order, fail) ==
    tfrc_rx_hist_alloc_loop(st, 0, order, fail)

\* tfrc_rx_hist_purge from slot i on
RECURSIVE tfrc_rx_hist_purge_loop(_, _)
tfrc_rx_hist_purge_loop(st, i) ==
    IF i <= TFRC_NDUPACK
    THEN tfrc_rx_hist_purge_loop(
             IF st.slots[i] # NULL
             THEN [st EXCEPT !.live = kmem_cache_free(@, st.slots[i]),
                             !.slots[i] = NULL]
             ELSE st, i + 1)
    ELSE st

\* tfrc_rx_hist_purge
tfrc_rx_hist_purge(st) == tfrc_rx_hist_purge_loop(st, 0)

----------------------------------------------------------------------------
(* Connection setup and teardown, one after the other *)

\* setups and teardowns made
MaxAllocOps == 3

\* the orders in which the slab hands out its objects
ObjOrders ==
    { [k \in 1 .. MaxObj |-> k], [k \in 1 .. MaxObj |-> MaxObj + 1 - k] }

\* which call of kmem_cache_alloc fails (TFRC_NDUPACK + 1: none)
AllocFails == 0 .. TFRC_NDUPACK + 1

\* the history before its first setup: the pointers are NULL or were never
\* assigned, the two counters hold anything
InitAlloc ==
    /\ isr = ScenBase
    /\ ring = [i \in Slots |-> Garbage(isr)]
    /\ loss_count \in {0, 3}
    /\ loss_start \in {0, 2}
    /\ now = 0
    /\ op = "init"
    /\ pkt = NoPkt
    /\ ret = NoRet
    /\ pre = H
    /\ li_calls = 0
    /\ li_saw = NoSaw
    /\ bugs = 0
    /\ scen = 0
    /\ run = 0
    /\ wall = WallStart
    /\ sample = NoSample
    /\ tx_head = <<>>
    /\ tx = NoTx
    /\ slots \in { [i \in Slots |-> NULL], [i \in Slots |-> Wild] }
    /\ live = {}
    /\ alloc = NoAlloc
    /\ arith = NoArith
    /\ arrived = NoArrived

SetA(st) ==
    /\ slots' = st.slots
    /\ live' = st.live
    /\ loss_count' = st.loss_count
    /\ loss_start' = st.loss_start

AllocCalled ==
    /\ now < MaxAllocOps
    /\ now' = now + 1
    /\ UNCHANGED <<ring, op, pkt, ret, pre, li_calls, li_saw, bugs, scen,
                   run, isr, wall, sample, tx_head, tx, arith,
                   arrived>>

\* setup: the history holds no object yet
RxAlloc(order, fail) ==
    LET r == tfrc_rx_hist_alloc(A, order, fail)
    IN  /\ \A i \in Slots : slots[i] \notin live
        /\ AllocCalled
        /\ SetA(r.st)
        /\ alloc' = [op |-> "alloc", fail |-> fail,
                     got |-> [k \in 1 .. (IF fail <= TFRC_NDUPACK THEN fail
                                         ELSE TFRC_NDUPACK + 1) |-> order[k]],
                     ret |-> r.ret, pre_slots |-> slots, pre_live |-> live,
                     pre_h |-> [loss_count |-> loss_count,
                                loss_start |-> loss_start],
                     read |-> [i \in Slots |-> NULL], before |-> [op |-> alloc.op, ret |-> alloc.ret,
                                fail |-> alloc.fail]]

\* what the read of a pointer that was never assigned can give: NULL, the
\* address of an object of the slab, or an address outside the slab
WildReads == {NULL, Wild} \cup SlabObjs

\* the values h->ring[0..3] give when tfrc_rx_hist_purge reads them
RingReads ==
    { rd \in [Slots -> WildReads] :
        \A i \in Slots : slots[i] # Wild => rd[i] = slots[i] }

\* teardown of a history that went through tfrc_rx_hist_alloc, or whose
\* pointers are all NULL; rd: what the pointers read as
RxPurge(rd) ==
    /\ alloc.op # "init" \/ \A i \in Slots : slots[i] # Wild
    /\ AllocCalled
    /\ SetA(tfrc_rx_hist_purge([A EXCEPT !.slots = rd]))
    /\ alloc' = [op |-> "purge", fail |-> TFRC_NDUPACK + 1, got |-> <<>>,
                 ret |-> 0, pre_slots |-> slots, pre_live |-> live,
                 pre_h |-> [loss_count |-> loss_count,
                            loss_start |-> loss_start],
                 read |-> rd, before |-> [op |-> alloc.op, ret |-> alloc.ret,
                                fail |-> alloc.fail]]

NextAlloc ==
    \/ \E order \in ObjOrders, fail \in AllocFails : RxAlloc(order, fail)
    \/ \E rd \in RingReads : RxPurge(rd)

SpecAlloc == InitAlloc /\ [][NextAlloc]_vars

\* the objects kmem_cache_alloc handed out during the operation
AllocGot == { alloc.got[k] : k \in 1 .. Len(alloc.got) }

\* C20: if the allocation of any of the four ring slots fails, alloc
\* returns an error and every object it allocated during the call has been
\* released (nothing stays allocated); if all four succeed it returns
\* success with loss_count = 0 and loss_start = 0.
C20_RxAlloc ==
    alloc.op = "alloc" =>
        IF alloc.fail <= TFRC_NDUPACK
        THEN /\ alloc.ret < 0
             /\ AllocGot \cap live = {}
             /\ live = alloc.pre_live
             /\ \A i \in Slots : slots[i] \notin AllocGot
        ELSE /\ alloc.ret = 0
             /\ loss_count = 0 /\ loss_start = 0
             /\ \A i \in Slots : slots[i] = alloc.got[i + 1]
             /\ live = alloc.pre_live \cup AllocGot

\* the allocation of the fourth slot failed after three had succeeded, on
\* a history whose counters were not 0
C20_Witness ==
    /\ alloc.op = "alloc" /\ alloc.fail = TFRC_NDUPACK
    /\ Cardinality(AllocGot) = TFRC_NDUPACK
    /\ alloc.pre_h.loss_count # 0

----------------------------------------------------------------------------
(* The sequence arithmetic of dccp.h called on its own *)

\* sequence numbers around 0, around the limb boundary 2^24, around half
\* the circle 2^47 and at the top 2^48 - 1
ArithSeqs ==
    { Seq48(0, 0), Seq48(0, 1), Seq48(0, Limb - 1), Seq48(1, 0),
      Seq48(Limb \div 2 - 1, Limb - 1), Seq48(Limb \div 2, 0),
      Seq48(Limb \div 2, 1), Seq48(Limb - 1, Limb - 1) }

ArithCalled ==
    UNCHANGED <<ring, loss_count, loss_start, now, op, pkt, ret, pre,
                li_calls, li_saw, bugs, scen, run, isr, wall, sample,
                tx_head, tx, slots, live, alloc, arrived>>

\* dccp_delta_seqno(a, b) and dccp_delta_seqno(b, a)
ArithDelta(a, b) ==
    /\ ArithCalled
    /\ arith' = [NoArith EXCEPT !.op = "delta", !.a = a, !.b = b,
                                !.delta = dccp_delta_seqno(a, b),
                                !.back = dccp_delta_seqno(b, a)]

\* before48(a, b), after48(a, b) and after48(b, a)
ArithOrder(a, b) ==
    /\ ArithCalled
    /\ arith' = [NoArith EXCEPT !.op = "order", !.a = a, !.b = b,
                                !.before = before48(a, b),
                                !.after = after48(a, b),
                                !.rafter = after48(b, a)]

\* between48(x, lo, hi): is lo <= x <= hi ?
ArithBetween(lo, x, hi) ==
    /\ ArithCalled
    /\ arith' = [NoArith EXCEPT !.op = "between", !.a = lo, !.b = x,
                                !.c = hi,
                                !.between = between48(x, lo, hi)]

NextArith ==
    \/ \E a \in ArithSeqs, b \in ArithSeqs : ArithDelta(a, b)
    \/ \E a \in ArithSeqs, b \in ArithSeqs : ArithOrder(a, b)
    \/ \E lo \in ArithSeqs, x \in ArithSeqs, hi \in ArithSeqs :
           ArithBetween(lo, x, hi)

\* one connection; nothing has been called yet
InitArith ==
    /\ Init
    /\ isr = ScenBase
    /\ ring = [i \in Slots |-> Garbage(isr)]

SpecArith == InitArith /\ [][NextArith]_vars

\* v is a value of [0, 2^48)
InRange48(v) == v.hi \in 0 .. Limb - 1 /\ v.lo \in 0 .. Limb - 1

\* C21: delta(a, b) is (b - a) mod 2^48, the value of [0, 2^48) that added
\* to a gives b modulo 2^48; it is 0 exactly when a = b; and delta(a, b) +
\* delta(b, a) is congruent to 0 modulo 2^48.
C21_Delta ==
    arith.op = "delta" =>
        /\ InRange48(arith.delta)
        /\ seq_add(arith.a, arith.delta) = arith.b
        /\ (arith.delta = SeqZero) <=> (arith.a = arith.b)
        /\ seq_add(arith.delta, arith.back) = SeqZero

\* delta was taken across the limb boundary and across the wrap at 2^48
C21_Witness ==
    /\ arith.op = "delta"
    /\ arith.a = Seq48(Limb - 1, Limb - 1) /\ arith.b = Seq48(1, 0)

\* C22: for a # b, before(a, b) holds if and only if after(b, a) holds.
C22_BeforeIsAfterReversed ==
    (arith.op = "order" /\ arith.a # arith.b) =>
        (arith.before <=> arith.rafter)

\* before and after were taken of two numbers half the circle apart
C22_Witness ==
    /\ arith.op = "order" /\ arith.before
    /\ dccp_delta_seqno(arith.a, arith.b) = Seq48(Limb \div 2, 0)

\* C23: before(a, b) and after(a, b) are never both true, both are false
\* exactly when a = b, and for a # b exactly one of them is true.
C23_OneSignedDifference ==
    arith.op = "order" =>
        /\ ~(arith.before /\ arith.after)
        /\ (~arith.before /\ ~arith.after) <=> (arith.a = arith.b)

\* the distance from lo to x and on to hi does not pass lo again
NoWrap(lo, x, hi) ==
    LET d1 == dccp_delta_seqno(lo, x)
        d2 == dccp_delta_seqno(x, hi)
        c  == IF d1.lo + d2.lo >= Limb THEN 1 ELSE 0
    IN  d1.hi + d2.hi + c < Limb

\* C24: between(lo, x, hi) is true if and only if x lies in the circular
\* interval [lo, hi], that is delta(lo, x) <= delta(lo, hi); it is true for
\* x = lo and for x = hi, and when lo = hi only for x = lo.
C24_Between ==
    arith.op = "between" =>
        /\ arith.between <=> SeqLeq(dccp_delta_seqno(arith.a, arith.b),
                                    dccp_delta_seqno(arith.a, arith.c))
        /\ arith.between <=> NoWrap(arith.a, arith.b, arith.c)
        /\ (arith.b = arith.a \/ arith.b = arith.c) => arith.between
        /\ (arith.a = arith.c /\ arith.between) => arith.b = arith.a

\* x = hi, on the far side of the wrap from lo
C24_Witness ==
    /\ arith.op = "between" /\ arith.between
    /\ arith.b = arith.c /\ arith.a = Seq48(Limb - 1, Limb - 1)
    /\ arith.c = Seq48(0, 1)

----------------------------------------------------------------------------
(* The vocabulary of the claims about the transitions of loss handling *)

\* a is circularly before b
Before(a, b) == before48(a.seqno, b.seqno)

\* the entry b is a valid successor of the entry a
Follows(a, b) == ValidSuccessor(a.seqno, b.seqno, b.ndp)

\* the arrival lies circularly between the entries a and b
PktBetween(a, b) == after48(pkt.seq, a.seqno) /\ before48(pkt.seq, b.seqno)

\* the receive path gave a packet that is no duplicate to handle_loss with n
\* entries pending, all of them received packets
HandledWith(n) ==
    /\ op = "receive" /\ RanHandleLoss /\ ret.dup = 0
    /\ pre.loss_count = n /\ PreWritten

\* the entries of the history as the loss sink saw it
SawEntry(i) == tfrc_rx_hist_entry(li_saw, i)

\* C25: one-pending transition, anchor S0, pending S1, arrival S2. If S2 is
\* after S1, loss_count becomes 2, entry(2) holds S2 and entry(0), entry(1)
\* are unchanged. If S2 lies between S0 and S1 and is a valid successor of
\* S0, then either S1 is a valid successor of S2 and loss_count becomes 0
\* with the anchor at S1, or it is not and the anchor record is overwritten
\* with S2, entry(1) stays S1 and loss_count stays 1.
C25_OnePendingOther ==
    HandledWith(1) =>
        /\ after48(pkt.seq, PreEntry(1).seqno) =>
              /\ loss_count = 2
              /\ CurEntry(2) = PktEntry
              /\ CurEntry(0) = PreEntry(0)
              /\ CurEntry(1) = PreEntry(1)
        /\ (/\ PktBetween(PreEntry(0), PreEntry(1))
            /\ Follows(PreEntry(0), PktEntry)) =>
              IF Follows(PktEntry, PreEntry(1))
              THEN /\ loss_count = 0
                   /\ CurEntry(0) = PreEntry(1)
              ELSE /\ loss_count = 1
                   /\ CurEntry(0) = PktEntry
                   /\ CurEntry(1) = PreEntry(1)

\* the three cases in which the two-pending transition is to confirm a loss
AfterS2 == after48(pkt.seq, PreEntry(2).seqno)

BetweenS1S2 == PktBetween(PreEntry(1), PreEntry(2))

BetweenS0S1NoSuccessor ==
    /\ PktBetween(PreEntry(0), PreEntry(1))
    /\ ~Follows(PreEntry(0), PktEntry)

\* the order of the four entries the loss sink saw
SawOrder(e0, e1, e2, e3) ==
    /\ li_saw.loss_count = 3
    /\ SawEntry(0) = e0 /\ SawEntry(1) = e1
    /\ SawEntry(2) = e2 /\ SawEntry(3) = e3
    /\ Before(e0, e1) /\ Before(e1, e2) /\ Before(e2, e3)

\* C26: the two-pending transition (S0, S1, S2 tracked, arrival S3) reports
\* a newly confirmed loss in exactly three cases: S3 after S2; S3 between S1
\* and S2; S3 between S0 and S1 but no valid successor of S0. In each of
\* them loss_count becomes 3 and the tracked entries are, by logical index,
\* (S0,S1,S2,S3), (S0,S1,S3,S2) and (S0,S3,S1,S2), in strictly increasing
\* circular order, whatever loss_start was.
C26_TwoPendingConfirms ==
    HandledWith(2) =>
        /\ (ret.two = 1) <=> (AfterS2 \/ BetweenS1S2 \/ BetweenS0S1NoSuccessor)
        /\ AfterS2 =>
              SawOrder(PreEntry(0), PreEntry(1), PreEntry(2), PktEntry)
        /\ (~AfterS2 /\ BetweenS1S2) =>
              SawOrder(PreEntry(0), PreEntry(1), PktEntry, PreEntry(2))
        /\ (~AfterS2 /\ ~BetweenS1S2 /\ BetweenS0S1NoSuccessor) =>
              SawOrder(PreEntry(0), PktEntry, PreEntry(1), PreEntry(2))

\* C27: two-pending transition, arrival S3 between S0 and S1 and a valid
\* successor of S0. If S1 is no valid successor of S3, the anchor record is
\* overwritten with S3, entry(1) and entry(2) stay S1 and S2 and loss_count
\* stays 2; if S1 is a valid successor of S3 but S2 is none of S1, the
\* anchor becomes S1, entry(1) is S2 and loss_count becomes 1. Both cases
\* report no new loss and do not invoke the loss sink.
C27_TwoPendingPartial ==
    (/\ HandledWith(2)
     /\ PktBetween(PreEntry(0), PreEntry(1))
     /\ Follows(PreEntry(0), PktEntry)) =>
        /\ ~Follows(PktEntry, PreEntry(1)) =>
              /\ loss_count = 2
              /\ CurEntry(0) = PktEntry
              /\ CurEntry(1) = PreEntry(1)
              /\ CurEntry(2) = PreEntry(2)
              /\ ret.hl = 0 /\ ret.two = 0 /\ li_calls = 0
        /\ (/\ Follows(PktEntry, PreEntry(1))
            /\ ~Follows(PreEntry(1), PreEntry(2))) =>
              /\ loss_count = 1
              /\ CurEntry(0) = PreEntry(1)
              /\ CurEntry(1) = PreEntry(2)
              /\ ret.hl = 0 /\ ret.two = 0 /\ li_calls = 0


\* the last operation confirmed a loss: the two-pending transition returned
\* 1, the loss sink was shown the history and the housekeeping ran on it
Housekept == op = "receive" /\ ret.two = 1 /\ ret.dup = 0 /\ PreWritten

\* C28: three-pending housekeeping on the history S0, S1, S2, S3 with
\* loss_count 3. If S2 is a valid successor of S1 and S3 of S2, the anchor
\* becomes S3 and loss_count 0; if S2 is a valid successor of S1 but S3 none
\* of S2, the anchor becomes S2, entry(1) is S3 and loss_count 1; otherwise
\* the anchor becomes S1, entry(1) is S2, entry(2) is S3 and loss_count 2.
\* No stored record changes, only loss_start and loss_count do.
C28_ThreePendingHousekeeping ==
    Housekept =>
        /\ li_saw.loss_count = 3
        /\ ring = li_saw.ring
        /\ IF Follows(SawEntry(1), SawEntry(2))
           THEN IF Follows(SawEntry(2), SawEntry(3))
                THEN /\ loss_count = 0
                     /\ CurEntry(0) = SawEntry(3)
                ELSE /\ loss_count = 1
                     /\ CurEntry(0) = SawEntry(2)
                     /\ CurEntry(1) = SawEntry(3)
           ELSE /\ loss_count = 2
                /\ CurEntry(0) = SawEntry(1)
                /\ CurEntry(1) = SawEntry(2)
                /\ CurEntry(2) = SawEntry(3)


\* C29: the is_new_loss value handle_loss returns is what the loss sink
\* answered when the two-pending transition of the call confirmed a loss,
\* and false in every other call: when loss_count was 1 at call time (the
\* two-pending transition does not run) and when the arrival only filled or
\* shrank a pending gap (the sink is not asked).
C29_IsNewLoss ==
    (op = "receive" /\ RanHandleLoss) =>
        /\ pre.loss_count = 1 => ret.two = -1
        /\ ret.two = 1 => (li_calls = 1 /\ ret.hl = ret.li)
        /\ ret.two # 1 => (li_calls = 0 /\ ret.li = -1 /\ ret.hl = 0)

\* the two-pending transition confirmed a loss, the sink answered 0 and so
\* did handle_loss
C29_Witness ==
    /\ op = "receive" /\ RanHandleLoss /\ pre.loss_count = 2
    /\ ret.two = 1 /\ ret.li = 0 /\ ret.hl = 0

\* C29 as stated: is_new_loss is true if and only if the two-pending
\* transition of the call confirmed a loss, whatever the loss sink returns
C29_IsNewLossIffConfirmed ==
    (op = "receive" /\ RanHandleLoss) => ((ret.hl = 1) <=> (ret.two = 1))


\* the gap between the entries a and b is a real hole: more than one
\* sequence number apart, and the NDP count of b does not account for it
RealHole(a, b) ==
    LET d == dccp_delta_seqno(a.seqno, b.seqno)
    IN  GtOne(d) /\ NdpBelow(b.ndp, d)

\* C30: a loss is reported only after three packets following a hole were
\* received: whenever the loss sink is invoked and the three-pending
\* housekeeping runs, the history holds S0 before S1 before S2 before S3 in
\* circular order and the gap between S0 and S1 is a real hole.
C30_LossAfterThree ==
    Housekept =>
        /\ li_calls = 1
        /\ li_saw.loss_count = 3
        /\ Before(SawEntry(0), SawEntry(1))
        /\ Before(SawEntry(1), SawEntry(2))
        /\ Before(SawEntry(2), SawEntry(3))
        /\ RealHole(SawEntry(0), SawEntry(1))


-----------------------------------------------------------------------------
(* Response to a hole, ordering decisions, and what the sampler leaves     *)

\* the arrival is circularly after every entry tracked before the call
AfterTracked ==
    \A i \in 0 .. pre.loss_count : after48(pkt.seq, PreEntry(i).seqno)

\* C31: bounded response to a persistent hole. With one gap pending, an
\* arrival after every tracked entry raises loss_count to 2 and reports no
\* loss; with two entries pending (as that arrival leaves the history), the
\* next arrival after every tracked entry has the loss sink invoked during
\* its handle_loss call.
C31_PersistentHole ==
    /\ (HandledWith(1) /\ AfterTracked) =>
          /\ loss_count = 2
          /\ ret.hl = 0 /\ li_calls = 0
    /\ (HandledWith(2) /\ AfterTracked) =>
          /\ ret.two = 1 /\ li_calls = 1


\* the one-pending transition treated the arrival as after S1: it was stored
\* as entry(2) behind S1
OneTookAfterS1 ==
    loss_count = 2 /\ CurEntry(2) = PktEntry /\ CurEntry(1) = PreEntry(1)

\* the two-pending transition treated the arrival as after S2 (stored as
\* entry(3)), or as after S1 but not after S2 (stored as entry(2))
TwoTookAfterS2 == ret.two = 1 /\ SawEntry(3) = PktEntry

TwoTookAfterS1 == ret.two = 1 /\ SawEntry(2) = PktEntry

\* C32: every ordering decision of the one-pending and two-pending
\* transitions agrees with the circular primitives, for all 48-bit sequence
\* numbers: the arrival is treated as after a tracked entry Si exactly when
\* after(arrival, Si) holds, also at circular distances of 2^31 or more.
C32_OrderingByPrimitives ==
    /\ HandledWith(1) =>
          (OneTookAfterS1 <=> after48(pkt.seq, PreEntry(1).seqno))
    /\ HandledWith(2) =>
          /\ TwoTookAfterS2 <=> after48(pkt.seq, PreEntry(2).seqno)
          /\ ~TwoTookAfterS2 =>
                (TwoTookAfterS1 <=> after48(pkt.seq, PreEntry(1).seqno))


\* the paths of sample_rtt that produce a sample or give up: delta_v = 4; a
\* stored candidate with delta_v = 0 or delta_v > 4 (a sample from the
\* candidate, or raw = 0); delta_v > 4 with no candidate stored
SamplerFinishes ==
    \/ DeltaV = 4
    \/ FlagSaysCandidate /\ (DeltaV = 0 \/ DeltaV > 4)
    \/ ~FlagSaysCandidate /\ DeltaV > 4

\* C33: whenever sample_rtt produces a sample or gives up, the candidate
\* state is reset to "no candidate" (0) before it returns, so that the next
\* add_packet writes the arrival over the reference entry ring[0]; the state
\* is kept (1 or 2, not reset) only on the deferring paths, which return 0
\* and are taken for delta_v in 0 .. 3 only.
C33_SamplerResets ==
    sample.called =>
        /\ SamplerFinishes =>
              /\ loss_start = 0
              /\ (loss_count = 0 =>
                     tfrc_rx_hist_rtt_last_s(
                         tfrc_rx_hist_add_packet(H, pkt, pkt.ndp, wall))
                     = RttPktEntry)
        /\ ~SamplerFinishes =>
              /\ DeltaV \in 0 .. 3
              /\ sample.ret = U32Of(0)
              /\ loss_start \in {1, 2}

\* sample_rtt gave up (delta_v > 4, nothing stored) with the state at 1 and
\* reset it
C33_Witness ==
    /\ sample.called /\ DeltaV > 4 /\ pre.loss_start = 1
    /\ loss_start = 0 /\ sample.ret = U32Of(0)


\* C34: when delta_v is 0 or greater than 4 and a candidate is stored (raw
\* not 0), sample_rtt returns the candidate interval scaled by the integer
\* quotient 4 / raw, limited to the sanity maximum:
\* min((4 div raw) * (prev.tstamp - last.tstamp), maximum); the factor is
\* 4, 2, 1 for raw = 1, 2, 3 and 0 for raw > 4.
C34_ScaledCandidate ==
    (/\ sample.called /\ (DeltaV = 0 \/ DeltaV > 4)
     /\ FlagSaysCandidate /\ RttRaw # 0)
    => sample.ret = Limited(RttScaled)


-----------------------------------------------------------------------------
(* The length of the Tx chain *)

\* the chain is the chain before the operation with entries put in front
TxKeepsOld ==
    /\ Len(tx_head) >= Len(tx.pre)
    /\ SubSeq(tx_head, Len(tx_head) - Len(tx.pre) + 1, Len(tx_head)) = tx.pre

\* C35: the Tx chain shrinks only through an rtt() that finds its entry or
\* through a purge: add never evicts or replaces an entry, an rtt() without
\* a match removes nothing, and so after n adds that succeeded, with no
\* matching rtt() and no purge, the chain holds exactly n entries.
C35_TxShrinksOnlyByRttOrPurge ==
    /\ tx.op = "add" => TxKeepsOld
    /\ (tx.op = "rtt" /\ TxMatches = {}) => tx_head = tx.pre
    /\ Len(tx_head) < Len(tx.pre) =>
          (tx.op = "purge" \/ (tx.op = "rtt" /\ TxMatches # {}))
    /\ ~tx.cut => Len(tx_head) = tx.adds

\* every operation but the last was an add that succeeded, the last an
\* rtt() that found no entry: the chain holds all the entries added
C35_Witness ==
    /\ ~tx.cut /\ tx.adds = MaxTxOps - 1 /\ Len(tx_head) = MaxTxOps - 1
    /\ tx.op = "rtt" /\ TxMatches = {}


-----------------------------------------------------------------------------
(* Invariants of the receive path *)

\* C36: loss_count = 3 exists only inside a handle_loss call (the loss sink
\* and the housekeeping see it): whenever an operation of the receive path
\* has returned, loss_count is 0, 1 or 2. Hence handle_loss, called only
\* when loss_count > 0, never reaches its invalid-loss_count fault, and the
\* index assertion of tfrc_rx_hist_delta_seqno never fires.
C36_LossCountBelowThree ==
    /\ loss_count \in 0 .. 2
    /\ bugs = 0
    /\ RanHandleLoss => pre.loss_count \in 1 .. 2
    /\ li_calls > 0 => li_saw.loss_count = 3

\* the housekeeping ran on a history with loss_count 3 and left a gap
\* between S1 and S2 pending
C36_Witness ==
    /\ op = "receive" /\ ret.two = 1 /\ li_saw.loss_count = 3
    /\ loss_count = 2


\* C37: the anchor only moves forward: after every operation of the receive
\* path the anchor's sequence number is equal to, or circularly after, its
\* value before the operation. Stated for the histories whose tracked
\* entries hold received packets.
C37_AnchorForward ==
    (op = "receive" /\ PreWritten /\ CurWritten) =>
        \/ CurEntry(0).seqno = PreEntry(0).seqno
        \/ after48(CurEntry(0).seqno, PreEntry(0).seqno)


\* C38: sample_rtt does not disturb the loss-detection state: loss_count,
\* loss_start (and so the slot that entry(0) designates) and the contents
\* of the four ring entries are the same after the call as before it.
C38_SamplerLeavesLossState ==
    (op = "sample_rtt" /\ sample.called) =>
        /\ loss_count = pre.loss_count
        /\ loss_start = pre.loss_start
        /\ ring = pre.ring


-----------------------------------------------------------------------------
(* Reordering: the packets a+1 .. a+n arrive in any order, each once *)

\* the packets that follow the anchor a are a + 1 .. a + MaxReorder
MaxReorder == 4

\* the lowest offset that has not arrived
LowestMissing(got) ==
    CHOOSE k \in 1 .. MaxReorder + 1 :
        k \notin got /\ \A j \in 1 .. k - 1 : j \in got

\* the packets received that lie after the lowest one still missing
AfterMissing(got) == { j \in got : j > LowestMissing(got) }

\* the history holds the packet a as its anchor, in any slot, no gap pending
InitReorder ==
    /\ isr \in {SeqBase, ScenBase}
    /\ loss_start \in Slots
    /\ ring = [i \in Slots |->
                 IF i = loss_start
                 THEN [seqno |-> isr, ccval |-> 1, type |-> 2, ndp |-> 0,
                       tstamp |-> 1]
                 ELSE Garbage(isr)]
    /\ loss_count = 0
    /\ now = 1
    /\ op = "init"
    /\ pkt = NoPkt
    /\ ret = NoRet
    /\ pre = H
    /\ li_calls = 0
    /\ li_saw = NoSaw
    /\ bugs = 0
    /\ scen = 0
    /\ run = 0
    /\ InitExt

\* the packet a + k (NDP count 0), which has not arrived before, goes
\* through the receive path
ReorderReceive(k, r) ==
    LET got == arrived.got \cup {k}
    IN  /\ k \notin arrived.got
        /\ now' = now + 1
        /\ Received(MkPacket(seq_add(isr, SeqOf(k)), k, 0), r)
        /\ arrived' = [got  |-> got,
                       few  |-> /\ arrived.few
                                /\ Cardinality(AfterMissing(got)) < TFRC_NDUPACK,
                       lost |-> \/ arrived.lost
                                \/ li_calls' > 0
                                \/ ret'.hl = 1]
        /\ UNCHANGED <<isr, wall, sample, tx_head, tx, slots, live, alloc,
                       arith>>

NextReorder == \E k \in 1 .. MaxReorder, r \in LiAnswers : ReorderReceive(k, r)

SpecReorder == InitReorder /\ [][NextReorder]_vars

\* a + 1 .. a + n have all arrived, for some n >= 1
ArrivedAll ==
    /\ arrived.got # {}
    /\ arrived.got = 1 .. Cardinality(arrived.got)

\* C39: reordering that stays below the three-packet threshold is never
\* reported as loss. If the packets a+1 .. a+n (NDP count 0) arrive in an
\* order in which at every moment fewer than three received packets lie
\* after the lowest sequence number still missing, the loss sink is never
\* invoked and handle_loss never returns true; once all of them have
\* arrived, loss_count is 0 and the anchor holds a+n.
C39_ReorderingNotLoss ==
    arrived.few =>
        /\ ~arrived.lost
        /\ ArrivedAll =>
              /\ loss_count = 0
              /\ CurEntry(0).seqno
                    = seq_add(isr, SeqOf(Cardinality(arrived.got)))

\* a+1 arrived last, behind a+2 and a+3 that were held back for it, and
\* closed the hole
C39_Witness ==
    /\ arrived.few /\ arrived.got = 1 .. 3
    /\ op = "receive" /\ pre.loss_count = 2 /\ ret.two = 0
    /\ pkt.seq = seq_add(isr, SeqOf(1))
    /\ loss_count = 0

----------------------------------------------------------------------------
(* Teardown of the receiver history in every order of setup and teardown *)

\* tfrc_rx_hist_purge passed slot i to kmem_cache_free
PurgeFreed(i) == alloc.read[i] # NULL

\* the teardown follows a setup that failed
AfterFailedAlloc ==
    /\ alloc.op = "purge"
    /\ alloc.before.op = "alloc" /\ alloc.before.ret < 0

\* C40: teardown is memory-safe in every order of calls: purge releases
\* each allocated ring entry exactly once and leaves the four slots NULL; a
\* second purge releases nothing; a purge that follows a failed alloc
\* (failure at any slot, on a ring that was never initialised) releases no
\* entry twice and no slot that alloc did not fill.
C40_TeardownSafe ==
    alloc.op = "purge" =>
        /\ \A i \in Slots : slots[i] = NULL
        /\ \A i \in Slots : PurgeFreed(i) => alloc.read[i] \in alloc.pre_live
        /\ \A i, j \in Slots :
               PurgeFreed(i) /\ PurgeFreed(j) /\ i # j
                   => alloc.read[i] # alloc.read[j]
        /\ live = alloc.pre_live \ { alloc.read[i] : i \in Slots }
        /\ \A i \in Slots : alloc.pre_slots[i] = Wild => ~PurgeFreed(i)
        /\ alloc.before.op = "purge" => \A i \in Slots : ~PurgeFreed(i)
        /\ AfterFailedAlloc => \A i \in Slots : ~PurgeFreed(i)

============================================================================
